---- MODULE Spec2Model ----
(***************************************************************************)
(* membench: the profile codec (record/writer.rs, replay/reader.rs) and    *)
(* the replay pipeline (replay/main.rs, reader_task.rs,                    *)
(* connection_task.rs, stats_aggregator.rs, stats.rs), the record loop    *)
(* (record/main.rs, parser.rs), the traffic generator and the replay       *)
(* client's key synthesis (replay/generator.rs, client.rs).                *)
(*                                                                         *)
(* The specifications of the module:                                       *)
(*   SpecCodec  : ProfileWriter -> file bytes -> ProfileReader -> pre-scan *)
(*   Spec       : dispatcher, connection tasks, aggregator, cancellation   *)
(*   SpecFair   : Spec with the fairness the tokio runtime provides        *)
(*   SpecParser : parse_command on a request arriving in two pieces        *)
(*   SpecRecord : the record loop over packets, and next_command           *)
(*   SpecStats  : record, snapshot and merge of the statistics             *)
(*   SpecKeys   : generate_key                                             *)
(*   SpecReassembler : add_packet and get_stream                           *)
(*   SpecRouting     : Spec with a conn_id that was given no queue         *)
(*   SpecStreamer    : ProfileStreamer and ProfileReader on one file       *)
(*   SpecClient      : a connection task's requests and responses on TCP   *)
(*   SpecCommands    : build_command_string, then parse_command            *)
(*   SpecInputs      : parse_command and parse_response on any input       *)
(***************************************************************************)
EXTENDS Integers, Sequences, FiniteSets, TLC

(***************************************************************************)
(* Bounds of the model.                                                    *)
(***************************************************************************)
\* Longest sequence of write_event calls explored by SpecCodec.
MaxEvents == 3
\* Events read, and passes begun, after which the model stops following the
\* dispatcher (it loops usize::MAX times under LoopMode::Infinite).
MaxReads == 3
\* Capacity of a per-connection queue (mpsc::channel(1000) in the code).
QueueCapacity == 1
\* Capacity of the stats channel (mpsc::channel(1000) in the code).
StatsCapacity == 1
\* Periodic snapshots the connection tasks emit at most, all together.
MaxTicks == 1

(***************************************************************************)
(* profile/mod.rs: the data model.                                         *)
(***************************************************************************)
CommandType == {"Get", "Set", "Delete", "Noop"}

\* Option<T>: None, or Some(v).
None == [some |-> FALSE, v |-> 0]
Some(x) == [some |-> TRUE, v |-> x]

\* #[derive(Serialize)] enum CommandType: serde's variant index.
VariantIndex(c) ==
    CASE c = "Get" -> 0 [] c = "Set" -> 1 [] c = "Delete" -> 2 [] c = "Noop" -> 3

VariantOf(i) ==
    CASE i = 0 -> "Get" [] i = 1 -> "Set" [] i = 2 -> "Delete" [] OTHER -> "Noop"

\* struct Event, fields in declaration order.
Event(ts, conn, cmd, bits, hash, ksize, vsize) ==
    [timestamp |-> ts, conn_id |-> conn, cmd_type |-> cmd, flags |-> bits,
     key_hash |-> hash, key_size |-> ksize, value_size |-> vsize]

\* ProfileMetadata::new()
MagicBytes == <<239, 190, 173, 222>>   \* 0xDEADBEEF, little-endian
ProfileMetadata_new ==
    [version |-> 2, total_events |-> 0, time_range |-> <<0, 0>>,
     unique_connections |-> 0, command_distribution |-> <<>>]

(***************************************************************************)
(* Byte encodings: to_le_bytes / from_le_bytes and bincode's fixed-width   *)
(* little-endian layout of the serde-derived types.                        *)
(***************************************************************************)
RECURSIVE to_le_bytes(_, _)
to_le_bytes(n, width) ==
    IF width = 0 THEN <<>>
    ELSE <<n % 256>> \o to_le_bytes(n \div 256, width - 1)

RECURSIVE from_le_bytes(_)
from_le_bytes(bytes) ==
    IF bytes = <<>> THEN 0
    ELSE bytes[1] + 256 * from_le_bytes(Tail(bytes))

\* data[from+1 .. to] in 0-based half-open terms: the slice &data[from..to].
Slice(data, from, to) == SubSeq(data, from + 1, to)

\* `len as u16`
AsU16(n) == n % 65536

SerializeOption(o) ==
    IF o.some THEN <<1>> \o to_le_bytes(o.v, 4) ELSE <<0>>

\* bincode::serialize(&Event)
SerializeEvent(e) ==
    to_le_bytes(e.timestamp, 8) \o to_le_bytes(e.conn_id, 2)
    \o to_le_bytes(VariantIndex(e.cmd_type), 4) \o <<e.flags>>
    \o to_le_bytes(e.key_hash, 8) \o to_le_bytes(e.key_size, 4)
    \o SerializeOption(e.value_size)

\* bincode::deserialize::<Event>: Err on short input, on an unknown variant
\* index, on an option tag other than 0/1 and on a zero NonZero; trailing
\* bytes are allowed.
DeserializeEvent(b) ==
    IF Len(b) < 28 THEN [ok |-> FALSE, event |-> Event(0, 0, "Get", 0, 0, 0, None)]
    ELSE LET ts    == from_le_bytes(Slice(b, 0, 8))
             conn  == from_le_bytes(Slice(b, 8, 10))
             var   == from_le_bytes(Slice(b, 10, 14))
             bits  == b[15]
             hash  == from_le_bytes(Slice(b, 15, 23))
             ksize == from_le_bytes(Slice(b, 23, 27))
             tag   == b[28]
             good  == /\ var \in 0..3
                      /\ tag \in {0, 1}
                      /\ tag = 1 => /\ Len(b) >= 32
                                    /\ from_le_bytes(Slice(b, 28, 32)) # 0
             vsize == IF tag = 1 /\ Len(b) >= 32
                      THEN Some(from_le_bytes(Slice(b, 28, 32))) ELSE None
         IN  [ok |-> good,
              event |-> Event(ts, conn, VariantOf(var), bits, hash, ksize, vsize)]

\* The entries of a HashMap<CommandType, u64> in iteration order `order`.
RECURSIVE SerializeEntries(_, _)
SerializeEntries(dist, order) ==
    IF order = <<>> THEN <<>>
    ELSE to_le_bytes(VariantIndex(order[1]), 4) \o to_le_bytes(dist[order[1]], 8)
         \o SerializeEntries(dist, Tail(order))

\* bincode::serialize(&ProfileMetadata); `order` is the HashMap's iteration order.
SerializeMetadata(m, order) ==
    MagicBytes \o <<m.version>> \o to_le_bytes(m.total_events, 8)
    \o to_le_bytes(m.time_range[1], 8) \o to_le_bytes(m.time_range[2], 8)
    \o to_le_bytes(m.unique_connections, 4)
    \o to_le_bytes(Len(order), 8) \o SerializeEntries(m.command_distribution, order)

RECURSIVE DeserializeEntries(_, _)
DeserializeEntries(b, n) ==
    IF n = 0 THEN <<>>
    ELSE LET k == VariantOf(from_le_bytes(Slice(b, 0, 4)))
             v == from_le_bytes(Slice(b, 4, 12))
             rest == DeserializeEntries(Slice(b, 12, Len(b)), n - 1)
         IN  [c \in {k} \cup DOMAIN rest |-> IF c \in DOMAIN rest THEN rest[c] ELSE v]

\* bincode::deserialize::<ProfileMetadata>
DeserializeMetadata(b) ==
    IF Len(b) < 41 THEN [ok |-> FALSE, metadata |-> ProfileMetadata_new]
    ELSE LET n == from_le_bytes(Slice(b, 33, 41))
         IN  IF Len(b) < 41 + 12 * n
             THEN [ok |-> FALSE, metadata |-> ProfileMetadata_new]
             ELSE [ok |-> TRUE,
                   metadata |->
                     [version |-> b[5],
                      total_events |-> from_le_bytes(Slice(b, 5, 13)),
                      time_range |-> <<from_le_bytes(Slice(b, 13, 21)),
                                       from_le_bytes(Slice(b, 21, 29))>>,
                      unique_connections |-> from_le_bytes(Slice(b, 29, 33)),
                      command_distribution |->
                          DeserializeEntries(Slice(b, 41, Len(b)), n)]]

(***************************************************************************)
(* record/writer.rs: ProfileWriter.                                        *)
(***************************************************************************)
\* ProfileWriter::new
ProfileWriter_new ==
    [file |-> <<>>, metadata |-> ProfileMetadata_new, events_written |-> 0,
     first_timestamp |-> None, last_timestamp |-> None, connections |-> {}]

\* A slip: or_insert(1) in place of or_insert(0).
EntryIncrement_from_one(map, k) ==
    [c \in DOMAIN map \cup {k} |-> IF c = k THEN (IF k \in DOMAIN map THEN map[k] ELSE 1) + 1
                                   ELSE map[c]]

\* *map.entry(k).or_insert(0) += 1
EntryIncrement(map, k) ==
    [c \in DOMAIN map \cup {k} |-> IF c = k THEN (IF k \in DOMAIN map THEN map[k] ELSE 0) + 1
                                   ELSE map[c]]

\* A slip: the length prefix written big-endian.
WriteEvent_be_prefix(w, e) ==
    LET encoded == SerializeEvent(e)
        prefix == to_le_bytes(AsU16(Len(encoded)), 2)
    IN  [w EXCEPT !.file = w.file \o <<prefix[2], prefix[1]>> \o encoded,
                  !.events_written = w.events_written + 1,
                  !.connections = w.connections \cup {e.conn_id}]

\* ProfileWriter::write_event: the writer after writing event e.
WriteEvent(w, e) ==
    LET encoded == SerializeEvent(e)
    IN  [file |-> w.file \o to_le_bytes(AsU16(Len(encoded)), 2) \o encoded,
         metadata |-> [w.metadata EXCEPT !.command_distribution =
                           EntryIncrement(w.metadata.command_distribution, e.cmd_type)],
         events_written |-> w.events_written + 1,
         first_timestamp |-> IF w.first_timestamp.some THEN w.first_timestamp
                             ELSE Some(e.timestamp),
         last_timestamp |-> Some(e.timestamp),
         connections |-> w.connections \cup {e.conn_id}]

\* A slip: unique_connections taken from the event counter.
FinishMetadata_count_events(w) ==
    [w.metadata EXCEPT
        !.total_events = w.events_written,
        !.unique_connections = w.events_written]

\* The metadata ProfileWriter::finish finalizes before serializing it.
FinishMetadata(w) ==
    [w.metadata EXCEPT
        !.total_events = w.events_written,
        !.unique_connections = Cardinality(w.connections),
        !.time_range = IF w.first_timestamp.some /\ w.last_timestamp.some
                       THEN <<w.first_timestamp.v, w.last_timestamp.v>>
                       ELSE w.metadata.time_range]

\* ProfileWriter::finish: the bytes of the finished file.
Finish(w, order) ==
    LET encoded_metadata == SerializeMetadata(FinishMetadata(w), order)
    IN  w.file \o encoded_metadata \o to_le_bytes(AsU16(Len(encoded_metadata)), 2)
        \o MagicBytes

(***************************************************************************)
(* replay/reader.rs: ProfileReader.                                        *)
(***************************************************************************)
\* The `while offset < metadata_start` loop of ProfileReader::new.
RECURSIVE ReadEvents(_, _, _, _)
ReadEvents(data, offset, metadata_start, events) ==
    IF offset >= metadata_start \/ offset + 2 > metadata_start
    THEN [ok |-> TRUE, events |-> events]
    ELSE LET len == from_le_bytes(Slice(data, offset, offset + 2))
             start == offset + 2
         IN  IF start + len > metadata_start
             THEN [ok |-> TRUE, events |-> events]
             ELSE LET d == DeserializeEvent(Slice(data, start, start + len))
                  IN  IF ~d.ok THEN [ok |-> FALSE, events |-> events]
                      ELSE ReadEvents(data, start + len, metadata_start,
                                      Append(events, d.event))

ReaderError == [ok |-> FALSE, metadata |-> ProfileMetadata_new, events |-> <<>>]

\* ProfileReader::new on the bytes of a file.
ProfileReader_new(data) ==
    IF Len(data) < 4 THEN ReaderError
    ELSE LET end_marker_pos == Len(data) - 4
         IN  IF Slice(data, end_marker_pos, end_marker_pos + 4) # MagicBytes
             THEN ReaderError
             ELSE IF end_marker_pos < 2 THEN ReaderError
             ELSE LET metadata_len_pos == end_marker_pos - 2
                      metadata_len ==
                          from_le_bytes(Slice(data, metadata_len_pos, metadata_len_pos + 2))
                  IN  IF metadata_len_pos < metadata_len THEN ReaderError
                      ELSE LET metadata_start == metadata_len_pos - metadata_len
                               m == DeserializeMetadata(
                                        Slice(data, metadata_start, metadata_len_pos))
                               r == ReadEvents(data, 0, metadata_start, <<>>)
                           IN  IF ~m.ok \/ ~r.ok THEN ReaderError
                               ELSE [ok |-> TRUE, metadata |-> m.metadata,
                                     events |-> r.events]

(***************************************************************************)
(* replay/main.rs, phases 1 and 2 of run: the pre-scan and the queues.     *)
(***************************************************************************)
\* The HashSet<u16> the pre-scan collects from reader.events().
UniqueConnections(events) == {events[i].conn_id : i \in 1..Len(events)}

\* One bounded queue per distinct connection, empty at creation.
CreateQueues(events) == [c \in UniqueConnections(events) |-> <<>>]

\* One connection task per distinct connection, spawned before it connects.
SpawnTasks(events) == [c \in UniqueConnections(events) |-> "connect"]

\* The orders in which a set can be iterated, as sequences.
Orders(S) ==
    {o \in [1..Cardinality(S) -> S] : \A i, j \in 1..Cardinality(S) : i # j => o[i] # o[j]}

(***************************************************************************)
(* State.                                                                  *)
(***************************************************************************)
VARIABLES
    \* --- record side -------------------------------------------------------
    writer,            \* the ProfileWriter's fields
    writer_pc,         \* "open" | "finished" (finish consumes the writer)
    written,           \* history: the events passed to write_event, in order
    disk,              \* the bytes of the profile file once flushed
    reader,            \* the ProfileReader opened on the file
    reader_pc,         \* "none" | "open" | "scanned"
    \* --- replay side -------------------------------------------------------
    profile,           \* the events the streamer yields, in file order
    loop_count,        \* reader_task's loop_count
    cancel_token,      \* CancellationToken: cancelled?
    dispatcher,        \* reader_task: [pc, iteration, current_offset, pending, reads,
                       \*               failed, senders]
    connection_queues, \* conn_id -> contents of its bounded channel
    task_pc,           \* conn_id -> where its connection task stands
    task_event,        \* conn_id -> the event its task is issuing
    local_stats,       \* conn_id -> its task's ConnectionStats
    ticks,             \* history: periodic snapshots taken so far
    stats_channel,     \* contents of the stats channel
    aggregator,        \* [pc, stats]: the aggregator and its AggregatedStats
    run,               \* replay run: [pc, awaited, export]
    issued,            \* history: conn_id -> requests whose write began
    completed,         \* history: conn_id -> number of requests fully written
    recorded,          \* history: conn_id -> successes its task recorded
    \* --- record loop and single components ---------------------------------
    capture,           \* record run: [pc, pending, packet_count, events, ...]
    parser,            \* MemcacheParser under test: [input, fed, result, ...]
    generator,         \* TrafficGenerator: the events next_command returned
    bench,             \* stats under test: ConnectionStats, snapshots, aggregate
    client,            \* ReplayClient::generate_key under test: pairs and keys
    reassembler,       \* StreamReassembler: [streams, ...] and what was added
    streamer           \* ProfileStreamer under test: its file, fields and results

\* The state of the record loop and of the components exercised on their own.
unit_vars == <<capture, parser, generator, bench, client, reassembler, streamer>>

codec_vars == <<writer, writer_pc, written, disk, reader, reader_pc, unit_vars>>

replay_vars == <<profile, loop_count, cancel_token, dispatcher, connection_queues,
                 task_pc, task_event, local_stats, ticks, stats_channel,
                 aggregator, run, issued, completed, recorded, unit_vars>>

\* What the replay's state that the pre-scan does not create stays at in SpecCodec.
pipeline_vars == <<profile, loop_count, cancel_token, dispatcher, task_event,
                   local_stats, ticks, stats_channel, aggregator, run, issued,
                   completed, recorded, unit_vars>>

\* Nothing is being recorded and no component is exercised on its own.
NoUnits ==
    /\ capture = <<>>
    /\ parser = <<>>
    /\ generator = <<>>
    /\ bench = <<>>
    /\ client = <<>>
    /\ reassembler = <<>>
    /\ streamer = <<>>

vars == <<codec_vars, replay_vars>>

(***************************************************************************)
(* SpecCodec: write events, finish, read back, pre-scan.                   *)
(***************************************************************************)
\* The events (valid: value_size present iff Set) the codec is exercised with;
\* the first two are the spec's round-trip events, hashes cut to 31 bits.
CodecEvents ==
    { Event(12345, 7, "Get", 0, 48879, 42, None),
      Event(54321, 3, "Set", 0, 51966, 16, Some(256)),
      Event(54321, 300, "Delete", 1, 65536, 0, None),
      Event(0, 7, "Noop", 0, 0, 0, None),
      Event(70000, 3, "Set", 2, 1, 300, Some(70000)) }

NoReader == [ok |-> FALSE, metadata |-> ProfileMetadata_new, events |-> <<>>]

\* The replay side before run: nothing exists yet.
NoPipeline ==
    /\ profile = <<>>
    /\ loop_count = 0
    /\ cancel_token = FALSE
    /\ dispatcher = [pc |-> "done", iteration |-> 0, current_offset |-> 0,
                     pending |-> <<>>, reads |-> 0, failed |-> FALSE, senders |-> {}]
    /\ task_event = <<>>
    /\ local_stats = <<>>
    /\ ticks = 0
    /\ stats_channel = <<>>
    /\ aggregator = [pc |-> "done", success_counts |-> <<>>, error_counts |-> <<>>]
    /\ run = [pc |-> "scan", awaited |-> {}, export |-> "pending"]
    /\ issued = <<>>
    /\ completed = <<>>
    /\ recorded = <<>>
    /\ NoUnits

InitCodec ==
    /\ writer = ProfileWriter_new
    /\ writer_pc = "open"
    /\ written = <<>>
    /\ disk = <<>>
    /\ reader = NoReader
    /\ reader_pc = "none"
    /\ connection_queues = <<>>
    /\ task_pc = <<>>
    /\ NoPipeline

\* writer.write_event(&event)
write_event(event) ==
    /\ writer_pc = "open"
    /\ Len(written) < MaxEvents
    /\ writer' = WriteEvent(writer, event)
    /\ written' = Append(written, event)
    /\ UNCHANGED <<writer_pc, disk, reader, reader_pc, replay_vars>>

\* writer.finish(): metadata and trailer appended, buffers flushed.
finish(order) ==
    /\ writer_pc = "open"
    /\ writer_pc' = "finished"
    /\ disk' = Finish(writer, order)
    /\ writer' = [writer EXCEPT !.metadata = FinishMetadata(writer)]
    /\ UNCHANGED <<written, reader, reader_pc, replay_vars>>

\* ProfileReader::new(path) on the finished file.
open_reader ==
    /\ writer_pc = "finished"
    /\ reader_pc = "none"
    /\ reader' = ProfileReader_new(disk)
    /\ reader_pc' = "open"
    /\ UNCHANGED <<writer, writer_pc, written, disk, replay_vars>>

\* run, phases 1 and 2: one queue and one task per distinct conn_id.
prescan ==
    /\ reader_pc = "open"
    /\ reader.ok
    /\ reader_pc' = "scanned"
    /\ connection_queues' = CreateQueues(reader.events)
    /\ task_pc' = SpawnTasks(reader.events)
    /\ UNCHANGED <<writer, writer_pc, written, disk, reader, pipeline_vars>>

NextCodec ==
    \/ \E event \in CodecEvents : write_event(event)
    \/ \E order \in Orders(DOMAIN writer.metadata.command_distribution) : finish(order)
    \/ open_reader
    \/ prescan

SpecCodec == InitCodec /\ [][NextCodec]_vars

(***************************************************************************)
(* replay/stats.rs: ConnectionStats, StatsSnapshot, AggregatedStats.       *)
(***************************************************************************)
ErrorType == {"Timeout", "ConnectionError", "ProtocolError"}

\* *map.entry(k).or_insert(0) += n
EntryAdd(map, k, n) ==
    [c \in DOMAIN map \cup {k} |-> IF c = k THEN (IF k \in DOMAIN map THEN map[k] ELSE 0) + n
                                   ELSE map[c]]

RECURSIVE SumValues(_)
SumValues(map) ==
    IF DOMAIN map = {} THEN 0
    ELSE LET k == CHOOSE c \in DOMAIN map : TRUE
         IN  map[k] + SumValues([c \in DOMAIN map \ {k} |-> map[c]])

\* ConnectionStats::new (the histograms follow the success counts key for key)
ConnectionStats_new == [success_counts |-> <<>>, error_counts |-> <<>>]

\* ConnectionStats::record_success
record_success(st, cmd_type) ==
    [st EXCEPT !.success_counts = EntryAdd(st.success_counts, cmd_type, 1)]

\* ConnectionStats::record_error
record_error(st, error_type) ==
    [st EXCEPT !.error_counts = EntryAdd(st.error_counts, error_type, 1)]

\* ConnectionStats::snapshot: the snapshot taken; the stats are then cleared.
snapshot(conn, st) ==
    [connection_id |-> conn, success_counts |-> st.success_counts,
     error_counts |-> st.error_counts]

\* for (k, n) in snapshot_map { *agg.entry(k).or_insert(0) += n }
RECURSIVE MergeCounts(_, _)
MergeCounts(agg, snap) ==
    IF DOMAIN snap = {} THEN agg
    ELSE LET k == CHOOSE c \in DOMAIN snap : TRUE
         IN  MergeCounts(EntryAdd(agg, k, snap[k]),
                         [c \in DOMAIN snap \ {k} |-> snap[c]])

\* Mutation: merge stores the snapshot's counts over the aggregate's instead
\* of adding them.
merge_replaces(agg, snap) ==
    [agg EXCEPT !.success_counts = snap.success_counts @@ agg.success_counts,
                !.error_counts = snap.error_counts @@ agg.error_counts]

\* AggregatedStats::merge
merge(agg, snap) ==
    [agg EXCEPT !.success_counts = MergeCounts(agg.success_counts, snap.success_counts),
                !.error_counts = MergeCounts(agg.error_counts, snap.error_counts)]

\* AggregatedStats::total_operations
total_operations(agg) == SumValues(agg.success_counts)

(***************************************************************************)
(* Spec: the replay pipeline after run has spawned every task.             *)
(***************************************************************************)
\* Stands for usize::MAX, the loop_count of LoopMode::Infinite: any value
\* above every pass the model follows behaves alike.
UsizeMax == 1000000

\* The loop modes explored: once, times:0, times:2, infinite.
LoopModes ==
    {[kind |-> "Once", n |-> 0], [kind |-> "Times", n |-> 0],
     [kind |-> "Times", n |-> 2], [kind |-> "Infinite", n |-> 0]}

\* let loop_count = match loop_mode { ... }
LoopCount(mode) ==
    CASE mode.kind = "Once" -> 1
      [] mode.kind = "Times" -> mode.n
      [] mode.kind = "Infinite" -> UsizeMax

\* The events replayed: those of the spec's dispatcher scenario,
\* [(c=1,Get), (c=2,Get), (c=1,Set,10)].
Get1 == Event(1, 1, "Get", 0, 11, 3, None)
Get2 == Event(2, 2, "Get", 0, 22, 3, None)
Set1 == Event(3, 1, "Set", 0, 11, 3, Some(10))

\* The profiles replayed: the scenario, its prefixes, and one connection alone.
Profiles == {<<>>, <<Get1>>, <<Get1, Get2>>, <<Get1, Set1>>, <<Get1, Get2, Set1>>}

RECURSIVE WriteAll(_, _)
WriteAll(w, events) ==
    IF events = <<>> THEN w ELSE WriteAll(WriteEvent(w, Head(events)), Tail(events))

\* The file a ProfileWriter leaves for a sequence of events.
ProfileFile(events) ==
    LET w == WriteAll(ProfileWriter_new, events)
    IN  Finish(w, CHOOSE o \in Orders(DOMAIN w.metadata.command_distribution) : TRUE)

Conns == DOMAIN connection_queues

NoEvent == <<>>

Idle == [pc |-> "done", iteration |-> 0, current_offset |-> 0, pending |-> NoEvent,
         reads |-> 0, failed |-> FALSE, senders |-> {}]

Init ==
    \* the record side is over: the profile file was written and is read back
    /\ writer = ProfileWriter_new
    /\ writer_pc = "finished"
    /\ written = <<>>
    /\ disk = <<>>
    /\ reader = NoReader
    /\ reader_pc = "scanned"
    /\ \E events \in Profiles :
          /\ ProfileReader_new(ProfileFile(events)).ok
          /\ profile = ProfileReader_new(ProfileFile(events)).events
    /\ \E mode \in LoopModes : loop_count = LoopCount(mode)
    /\ cancel_token = FALSE
    \* the senders of the queues were moved into the reader task
    /\ dispatcher = [Idle EXCEPT !.pc = "outer", !.senders = UniqueConnections(profile)]
    /\ connection_queues = CreateQueues(profile)
    /\ task_pc = SpawnTasks(profile)
    /\ task_event = [c \in UniqueConnections(profile) |-> NoEvent]
    /\ local_stats = [c \in UniqueConnections(profile) |-> ConnectionStats_new]
    /\ ticks = 0
    /\ stats_channel = <<>>
    /\ aggregator = [pc |-> "run", success_counts |-> <<>>, error_counts |-> <<>>]
    /\ run = [pc |-> "await_reader", awaited |-> {}, export |-> "pending"]
    /\ issued = [c \in UniqueConnections(profile) |-> <<>>]
    /\ completed = [c \in UniqueConnections(profile) |-> 0]
    /\ recorded = [c \in UniqueConnections(profile) |-> 0]
    /\ NoUnits

\* A task that has returned has dropped its queue receiver and its stats sender.
Exited(c) == task_pc[c] \in {"ok", "err"}

reader_unchanged ==
    UNCHANGED <<codec_vars, profile, loop_count, cancel_token, task_pc, task_event,
                local_stats, ticks, stats_channel, aggregator, run, issued,
                completed, recorded>>

\* The signal task: should_exit observed, cancel_token.cancel().
Cancel ==
    /\ ~cancel_token
    /\ run.pc \notin {"ok", "err"}
    /\ cancel_token' = TRUE
    /\ UNCHANGED <<codec_vars, profile, loop_count, dispatcher, connection_queues,
                   task_pc, task_event, local_stats, ticks, stats_channel,
                   aggregator, run, issued, completed, recorded>>

(***************************************************************************)
(* replay/reader_task.rs: the dispatcher.                                  *)
(***************************************************************************)
\* Mutation: the guard is forgotten (std::mem::forget) and never dropped.
QueueGuard_drop_forgotten(d) == d

\* impl Drop for QueueGuard: the HashMap of senders is taken and dropped.
QueueGuard_drop(d) == [d EXCEPT !.senders = {}]

\* reader_task returns, by `Ok(())` or by `?`: its locals are dropped, the
\* guard among them.
Return(d) == QueueGuard_drop([d EXCEPT !.pc = "done"])

\* `break` out of the inner loop after a pass ended or a send failed: the for
\* loop moves to the next iteration, or ends and the guard drops the senders.
BreakInner(d) ==
    LET after == [d EXCEPT !.iteration = d.iteration + 1, !.pending = NoEvent]
    IN  IF d.iteration + 1 < loop_count THEN [after EXCEPT !.pc = "outer"] ELSE Return(after)

\* `break` on cancellation: the next check of the for loop (its range, or
\* cancel_token.is_cancelled()) ends it and the guard drops the senders.
BreakCancelled(d) ==
    Return([d EXCEPT !.iteration = d.iteration + 1, !.pending = NoEvent])

\* for iteration in 0..loop_count { if cancelled { break } ... }: a pass begins.
ReaderOuter ==
    /\ dispatcher.pc = "outer"
    /\ IF dispatcher.iteration >= loop_count \/ cancel_token
       THEN dispatcher' = Return(dispatcher)
       ELSE /\ dispatcher.iteration < MaxReads
            /\ dispatcher' = [dispatcher EXCEPT !.pc = "inner"]
    /\ UNCHANGED connection_queues
    /\ reader_unchanged

\* Mutation: an unknown conn_id ends the pass like a failed send.
ReaderNext_unknown_breaks ==
    /\ dispatcher.pc = "inner"
    /\ IF cancel_token
       THEN dispatcher' = BreakCancelled(dispatcher)
       ELSE IF dispatcher.current_offset < Len(profile)
       THEN LET pos == dispatcher.current_offset + 1
                item == [event |-> profile[pos], pass |-> dispatcher.iteration, pos |-> pos]
            IN  /\ dispatcher.reads < MaxReads
                /\ IF profile[pos].conn_id \in Conns
                   THEN dispatcher' = [dispatcher EXCEPT !.pc = "send", !.current_offset = pos,
                                                         !.pending = item, !.reads = @ + 1]
                   ELSE dispatcher' = BreakInner([dispatcher EXCEPT !.current_offset = pos,
                                                                    !.reads = @ + 1])
       ELSE \* None: end of profile; reset unless this was the last iteration
            dispatcher' = [BreakInner(dispatcher) EXCEPT
                              !.current_offset =
                                  IF dispatcher.iteration < loop_count - 1
                                  THEN 0 ELSE dispatcher.current_offset]
    /\ UNCHANGED connection_queues
    /\ reader_unchanged

\* Mutation: the end of a pass never calls streamer.reset().
ReaderNext_no_reset ==
    /\ dispatcher.pc = "inner"
    /\ IF cancel_token
       THEN dispatcher' = BreakCancelled(dispatcher)
       ELSE IF dispatcher.current_offset < Len(profile)
       THEN LET pos == dispatcher.current_offset + 1
                item == [event |-> profile[pos], pass |-> dispatcher.iteration, pos |-> pos]
            IN  /\ dispatcher.reads < MaxReads
                /\ IF profile[pos].conn_id \in Conns
                   THEN dispatcher' = [dispatcher EXCEPT !.pc = "send", !.current_offset = pos,
                                                         !.pending = item, !.reads = @ + 1]
                   ELSE dispatcher' = [dispatcher EXCEPT !.current_offset = pos,
                                                         !.reads = @ + 1]
       ELSE \* None: end of profile; reset unless this was the last iteration
            dispatcher' = [BreakInner(dispatcher) EXCEPT
                              !.current_offset = dispatcher.current_offset]
    /\ UNCHANGED connection_queues
    /\ reader_unchanged

\* Top of the inner loop: the cancellation check, then streamer.next_event().
ReaderNext ==
    /\ dispatcher.pc = "inner"
    /\ IF cancel_token
       THEN dispatcher' = BreakCancelled(dispatcher)
       ELSE IF dispatcher.current_offset < Len(profile)
       THEN LET pos == dispatcher.current_offset + 1
                item == [event |-> profile[pos], pass |-> dispatcher.iteration, pos |-> pos]
            IN  /\ dispatcher.reads < MaxReads
                /\ IF profile[pos].conn_id \in Conns
                   THEN dispatcher' = [dispatcher EXCEPT !.pc = "send", !.current_offset = pos,
                                                         !.pending = item, !.reads = @ + 1]
                   ELSE dispatcher' = [dispatcher EXCEPT !.current_offset = pos,
                                                         !.reads = @ + 1]
       ELSE \* None: end of profile; reset unless this was the last iteration
            dispatcher' = [BreakInner(dispatcher) EXCEPT
                              !.current_offset =
                                  IF dispatcher.iteration < loop_count - 1
                                  THEN 0 ELSE dispatcher.current_offset]
    /\ UNCHANGED connection_queues
    /\ reader_unchanged

\* streamer.next_event()? returns Err (the profile file no longer holds what
\* the pre-scan read): reader_task returns the error and the guard drops the
\* senders.  next_event returns Ok(None) at the end of the event section
\* before it reads anything, so only the read of an event can fail.
ReaderStreamError ==
    /\ dispatcher.pc = "inner"
    /\ ~cancel_token
    /\ dispatcher.current_offset < Len(profile)
    /\ dispatcher.reads < MaxReads
    /\ dispatcher' = Return([dispatcher EXCEPT !.pending = NoEvent, !.failed = TRUE])
    /\ UNCHANGED connection_queues
    /\ reader_unchanged

\* Mutation: the event goes to the queue of the first connection, whatever
\* its conn_id.
ReaderSend_first_queue ==
    /\ dispatcher.pc = "send"
    /\ LET c == CHOOSE k \in Conns : \A l \in Conns : k <= l
       IN  IF Exited(c)
           THEN /\ dispatcher' = BreakInner(dispatcher)
                /\ UNCHANGED connection_queues
           ELSE /\ Len(connection_queues[c]) < QueueCapacity
                /\ connection_queues' =
                       [connection_queues EXCEPT ![c] = Append(@, dispatcher.pending)]
                /\ dispatcher' = [dispatcher EXCEPT !.pc = "inner", !.pending = NoEvent]
    /\ reader_unchanged

\* Mutation: an unbounded channel; the send never waits for room.
ReaderSend_unbounded ==
    /\ dispatcher.pc = "send"
    /\ LET c == dispatcher.pending.event.conn_id
       IN  IF Exited(c)
           THEN /\ dispatcher' = BreakInner(dispatcher)
                /\ UNCHANGED connection_queues
           ELSE /\ connection_queues' =
                       [connection_queues EXCEPT ![c] = Append(@, dispatcher.pending)]
                /\ dispatcher' = [dispatcher EXCEPT !.pc = "inner", !.pending = NoEvent]
    /\ reader_unchanged

\* select! { cancelled => break, tx.send(event) => ... }: the send completes.
ReaderSend ==
    /\ dispatcher.pc = "send"
    /\ LET c == dispatcher.pending.event.conn_id
       IN  IF Exited(c)
           THEN \* the receiver is gone: Err, "closed unexpectedly", break
                /\ dispatcher' = BreakInner(dispatcher)
                /\ UNCHANGED connection_queues
           ELSE /\ Len(connection_queues[c]) < QueueCapacity
                /\ connection_queues' =
                       [connection_queues EXCEPT ![c] = Append(@, dispatcher.pending)]
                /\ dispatcher' = [dispatcher EXCEPT !.pc = "inner", !.pending = NoEvent]
    /\ reader_unchanged

\* Mutation: a plain tx.send(event).await outside select!; there is no
\* cancelled branch to take.
ReaderSendCancelled_plain_send == FALSE /\ UNCHANGED vars

\* select!: the cancelled branch wins while the send is pending.
ReaderSendCancelled ==
    /\ dispatcher.pc = "send"
    /\ cancel_token
    /\ dispatcher' = BreakCancelled(dispatcher)
    /\ UNCHANGED connection_queues
    /\ reader_unchanged

(***************************************************************************)
(* replay/connection_task.rs: one connection task per conn_id.             *)
(***************************************************************************)
task_unchanged ==
    UNCHANGED <<codec_vars, profile, loop_count, cancel_token, dispatcher,
                aggregator, run>>

\* ReplayClient::new(...).await? : the connection is established.
TaskConnect(c) ==
    /\ task_pc[c] = "connect"
    /\ task_pc' = [task_pc EXCEPT ![c] = "select"]
    /\ UNCHANGED <<connection_queues, task_event, local_stats, ticks, stats_channel,
                   issued, completed, recorded>>
    /\ task_unchanged

\* ReplayClient::new(...).await? : connect refused, the task returns Err.
TaskConnectFail(c) ==
    /\ task_pc[c] = "connect"
    /\ task_pc' = [task_pc EXCEPT ![c] = "err"]
    /\ UNCHANGED <<connection_queues, task_event, local_stats, ticks, stats_channel,
                   issued, completed, recorded>>
    /\ task_unchanged

\* How stats_tx.send(snapshot).await ends now: Err once the aggregator has
\* dropped the receiver, Ok when the channel has room, else it stays pending.
StatsSend ==
    IF aggregator.pc = "done" THEN "err"
    ELSE IF Len(stats_channel) < StatsCapacity THEN "ok" ELSE "pending"

\* `break`, then `let _ = stats_tx.send(local_stats.snapshot()).await; Ok(())`:
\* the task returns unless the send is pending.
ExitLoop(c) ==
    IF StatsSend = "pending"
    THEN /\ task_pc' = [task_pc EXCEPT ![c] = "final"]
         /\ UNCHANGED <<local_stats, stats_channel>>
    ELSE /\ task_pc' = [task_pc EXCEPT ![c] = "ok"]
         /\ local_stats' = [local_stats EXCEPT ![c] = ConnectionStats_new]
         /\ stats_channel' = IF StatsSend = "ok"
                             THEN Append(stats_channel, snapshot(c, local_stats[c]))
                             ELSE stats_channel

\* Mutation: send_command and read_response are raced against the token
\* too, so cancellation cuts a command in flight.
TaskCancelled_interrupts(c) ==
    /\ task_pc[c] \in {"select", "write", "read"}
    /\ cancel_token
    /\ ExitLoop(c)
    /\ UNCHANGED <<connection_queues, task_event, ticks, issued, completed, recorded>>
    /\ task_unchanged

\* select!: the cancelled branch; break.
TaskCancelled(c) ==
    /\ task_pc[c] = "select"
    /\ cancel_token
    /\ ExitLoop(c)
    /\ UNCHANGED <<connection_queues, task_event, ticks, issued, completed, recorded>>
    /\ task_unchanged

\* Mutation: the task takes the next event while the previous request is still
\* being written.
TaskRecv_pipelined(c) ==
    /\ task_pc[c] \in {"select", "write"}
    /\ connection_queues[c] # <<>>
    /\ LET item == Head(connection_queues[c])
       IN  /\ task_event' = [task_event EXCEPT ![c] = item]
           /\ issued' = [issued EXCEPT ![c] = Append(@, item)]
    /\ connection_queues' = [connection_queues EXCEPT ![c] = Tail(@)]
    /\ task_pc' = [task_pc EXCEPT ![c] = "write"]
    /\ UNCHANGED <<local_stats, ticks, stats_channel, completed, recorded>>
    /\ task_unchanged

\* select!: rx.recv() yields Some(event); send_command begins writing it.
TaskRecv(c) ==
    /\ task_pc[c] = "select"
    /\ connection_queues[c] # <<>>
    /\ LET item == Head(connection_queues[c])
       IN  /\ task_event' = [task_event EXCEPT ![c] = item]
           /\ issued' = [issued EXCEPT ![c] = Append(@, item)]
    /\ connection_queues' = [connection_queues EXCEPT ![c] = Tail(@)]
    /\ task_pc' = [task_pc EXCEPT ![c] = "write"]
    /\ UNCHANGED <<local_stats, ticks, stats_channel, completed, recorded>>
    /\ task_unchanged

\* rx.recv() yields None: the queue is empty and no sender of it is left.
RecvClosed(c) == connection_queues[c] = <<>> /\ c \notin dispatcher.senders

\* select!: rx.recv() yields None (queue empty, senders dropped); break.
TaskChannelClosed(c) ==
    /\ task_pc[c] = "select"
    /\ RecvClosed(c)
    /\ ExitLoop(c)
    /\ UNCHANGED <<connection_queues, task_event, ticks, issued, completed, recorded>>
    /\ task_unchanged

\* client.send_command(&event) completes: the request is fully written.
TaskWrite(c) ==
    /\ task_pc[c] = "write"
    /\ task_pc' = [task_pc EXCEPT ![c] = "read"]
    /\ completed' = [completed EXCEPT ![c] = @ + 1]
    /\ UNCHANGED <<connection_queues, task_event, local_stats, ticks, stats_channel,
                   issued, recorded>>
    /\ task_unchanged

\* client.send_command fails: record ConnectionError, return Err.
TaskWriteFail(c) ==
    /\ task_pc[c] = "write"
    /\ local_stats' = [local_stats EXCEPT ![c] = record_error(@, "ConnectionError")]
    /\ task_pc' = [task_pc EXCEPT ![c] = "err"]
    /\ task_event' = [task_event EXCEPT ![c] = NoEvent]
    /\ UNCHANGED <<connection_queues, ticks, stats_channel, issued, completed, recorded>>
    /\ task_unchanged

\* client.read_response() returns Ok: record_success.
TaskRead(c) ==
    /\ task_pc[c] = "read"
    /\ local_stats' = [local_stats EXCEPT
                          ![c] = record_success(@, task_event[c].event.cmd_type)]
    /\ recorded' = [recorded EXCEPT ![c] = @ + 1]
    /\ task_event' = [task_event EXCEPT ![c] = NoEvent]
    /\ task_pc' = [task_pc EXCEPT ![c] = "select"]
    /\ UNCHANGED <<connection_queues, ticks, stats_channel, issued, completed>>
    /\ task_unchanged

\* client.read_response() fails: record ProtocolError, return Err.
TaskReadFail(c) ==
    /\ task_pc[c] = "read"
    /\ local_stats' = [local_stats EXCEPT ![c] = record_error(@, "ProtocolError")]
    /\ task_pc' = [task_pc EXCEPT ![c] = "err"]
    /\ task_event' = [task_event EXCEPT ![c] = NoEvent]
    /\ UNCHANGED <<connection_queues, ticks, stats_channel, issued, completed, recorded>>
    /\ task_unchanged

\* Mutation: a snapshot() that does not clear the local counts.
TickSend_keeps_stats(c) ==
    /\ UNCHANGED local_stats
    /\ IF StatsSend = "ok"
       THEN /\ stats_channel' = Append(stats_channel, snapshot(c, local_stats[c]))
            /\ task_pc' = [task_pc EXCEPT ![c] = "select"]
       ELSE /\ task_pc' = [task_pc EXCEPT ![c] = "ok"]
            /\ UNCHANGED stats_channel

\* stats_tx.send(local_stats.snapshot()).await of the tick branch ends: the
\* stats were cleared by snapshot(); on Err the task breaks, its final send
\* fails likewise and it returns.
TickSend(c) ==
    /\ local_stats' = [local_stats EXCEPT ![c] = ConnectionStats_new]
    /\ IF StatsSend = "ok"
       THEN /\ stats_channel' = Append(stats_channel, snapshot(c, local_stats[c]))
            /\ task_pc' = [task_pc EXCEPT ![c] = "select"]
       ELSE /\ task_pc' = [task_pc EXCEPT ![c] = "ok"]
            /\ UNCHANGED stats_channel

\* select!: interval.tick() fires; the snapshot is sent, or the send is pending.
TaskTick(c) ==
    /\ task_pc[c] = "select"
    /\ ticks < MaxTicks
    /\ ticks' = ticks + 1
    /\ IF StatsSend = "pending"
       THEN /\ task_pc' = [task_pc EXCEPT ![c] = "tick"]
            /\ UNCHANGED <<local_stats, stats_channel>>
       ELSE TickSend(c)
    /\ UNCHANGED <<connection_queues, task_event, issued, completed, recorded>>
    /\ task_unchanged

\* The pending send of the tick branch ends.
TaskTickSend(c) ==
    /\ task_pc[c] = "tick"
    /\ StatsSend # "pending"
    /\ TickSend(c)
    /\ UNCHANGED <<connection_queues, task_event, ticks, issued, completed, recorded>>
    /\ task_unchanged

\* The pending final send ends; Ok(()).
TaskFinalSnapshot(c) ==
    /\ task_pc[c] = "final"
    /\ StatsSend # "pending"
    /\ ExitLoop(c)
    /\ UNCHANGED <<connection_queues, task_event, ticks, issued, completed, recorded>>
    /\ task_unchanged

(***************************************************************************)
(* replay/stats_aggregator.rs: the aggregator.                             *)
(***************************************************************************)
agg_unchanged ==
    UNCHANGED <<codec_vars, profile, loop_count, cancel_token, dispatcher,
                connection_queues, task_pc, task_event, local_stats, ticks, run,
                issued, completed, recorded>>

\* select!: the cancelled branch; break and return agg_stats.
AggCancelled ==
    /\ aggregator.pc = "run"
    /\ cancel_token
    /\ aggregator' = [aggregator EXCEPT !.pc = "done"]
    /\ UNCHANGED stats_channel
    /\ agg_unchanged

\* select!: rx.recv() yields Some(snapshot); merge it.
AggMerge ==
    /\ aggregator.pc = "run"
    /\ stats_channel # <<>>
    /\ aggregator' = merge(aggregator, Head(stats_channel))
    /\ stats_channel' = Tail(stats_channel)
    /\ agg_unchanged

\* Mutation: run keeps its own stats_tx, so the channel closes only when run
\* has returned.
AggClosed_sender_kept ==
    /\ aggregator.pc = "run"
    /\ stats_channel = <<>>
    /\ \A c \in Conns : Exited(c)
    /\ run.pc \in {"ok", "err"}
    /\ aggregator' = [aggregator EXCEPT !.pc = "done"]
    /\ UNCHANGED stats_channel
    /\ agg_unchanged

\* select!: rx.recv() yields None (every sender dropped); return agg_stats.
AggClosed ==
    /\ aggregator.pc = "run"
    /\ stats_channel = <<>>
    /\ \A c \in Conns : Exited(c)
    /\ aggregator' = [aggregator EXCEPT !.pc = "done"]
    /\ UNCHANGED stats_channel
    /\ agg_unchanged

(***************************************************************************)
(* replay/main.rs: run, phases 4 to 6.                                     *)
(***************************************************************************)
run_unchanged ==
    UNCHANGED <<codec_vars, profile, loop_count, cancel_token, dispatcher,
                connection_queues, task_pc, task_event, local_stats, ticks,
                stats_channel, aggregator, issued, completed, recorded>>

\* Once every handle is awaited run goes on to stats_handle.await.
AfterTasks(awaited) == IF awaited = Conns THEN "await_stats" ELSE "await_tasks"

\* reader_task_handle.await??
RunAwaitReader ==
    /\ run.pc = "await_reader"
    /\ dispatcher.pc = "done"
    /\ run' = [run EXCEPT !.pc = IF dispatcher.failed THEN "err" ELSE AfterTasks({})]
    /\ run_unchanged

\* Mutation: `let _ = task.await;`, the task's result is not looked at.
RunAwaitTask_ignores_error(c) ==
    /\ run.pc = "await_tasks"
    /\ c \notin run.awaited
    /\ Exited(c)
    /\ run' = [run EXCEPT !.pc = AfterTasks(run.awaited \cup {c}),
                          !.awaited = run.awaited \cup {c}]
    /\ run_unchanged

\* for task in connection_tasks { task.await??; } : the handles are awaited
\* in the order of the Vec, which is the HashSet's iteration order; c is the
\* next handle of that order.
RunAwaitTask(c) ==
    /\ run.pc = "await_tasks"
    /\ c \notin run.awaited
    /\ Exited(c)
    /\ run' = IF task_pc[c] = "err"
              THEN [run EXCEPT !.pc = "err"]
              ELSE [run EXCEPT !.pc = AfterTasks(run.awaited \cup {c}),
                               !.awaited = run.awaited \cup {c}]
    /\ run_unchanged

\* How the export of the statistics ends: stats_json is None; it names a
\* file and std::fs::write(json_path, json)? succeeds; or the write fails.
ExportOutcomes == {"none", "written", "failed"}

\* let final_stats = stats_handle.await?; the summary; the JSON export when
\* one was asked for; Ok(()).
RunAwaitStats ==
    /\ run.pc = "await_stats"
    /\ aggregator.pc = "done"
    /\ \E export \in ExportOutcomes :
          run' = [run EXCEPT !.pc = IF export = "failed" THEN "err" ELSE "ok",
                            !.export = export]
    /\ run_unchanged

Next ==
    \/ Cancel
    \/ ReaderOuter
    \/ ReaderNext
    \/ ReaderStreamError
    \/ ReaderSend
    \/ ReaderSendCancelled
    \/ \E c \in Conns :
          \/ TaskConnect(c)
          \/ TaskConnectFail(c)
          \/ TaskCancelled(c)
          \/ TaskRecv(c)
          \/ TaskChannelClosed(c)
          \/ TaskWrite(c)
          \/ TaskWriteFail(c)
          \/ TaskRead(c)
          \/ TaskReadFail(c)
          \/ TaskTick(c)
          \/ TaskTickSend(c)
          \/ TaskFinalSnapshot(c)
    \/ AggCancelled
    \/ AggMerge
    \/ AggClosed
    \/ RunAwaitReader
    \/ \E c \in Conns : RunAwaitTask(c)
    \/ RunAwaitStats

Spec == Init /\ [][Next]_vars

(***************************************************************************)
(* SpecRouting: reader_task over a profile holding events of a conn_id      *)
(* that was given no queue.                                                *)
(***************************************************************************)
\* The profiles replayed: events of connections 1 and 2.
RoutingProfiles == {<<Get1, Get2>>, <<Get2, Get1>>, <<Get1, Get2, Set1>>}

\* The connections that were given a queue and a task: connection 2 was not.
KnownConnections(events) == UniqueConnections(events) \ {Get2.conn_id}

InitRouting ==
    /\ writer = ProfileWriter_new
    /\ writer_pc = "finished"
    /\ written = <<>>
    /\ disk = <<>>
    /\ reader = NoReader
    /\ reader_pc = "scanned"
    /\ \E events \in RoutingProfiles :
          /\ ProfileReader_new(ProfileFile(events)).ok
          /\ profile = ProfileReader_new(ProfileFile(events)).events
    /\ \E mode \in LoopModes : loop_count = LoopCount(mode)
    /\ cancel_token = FALSE
    /\ dispatcher = [Idle EXCEPT !.pc = "outer", !.senders = KnownConnections(profile)]
    /\ connection_queues = [c \in KnownConnections(profile) |-> <<>>]
    /\ task_pc = [c \in KnownConnections(profile) |-> "connect"]
    /\ task_event = [c \in KnownConnections(profile) |-> NoEvent]
    /\ local_stats = [c \in KnownConnections(profile) |-> ConnectionStats_new]
    /\ ticks = 0
    /\ stats_channel = <<>>
    /\ aggregator = [pc |-> "run", success_counts |-> <<>>, error_counts |-> <<>>]
    /\ run = [pc |-> "await_reader", awaited |-> {}, export |-> "pending"]
    /\ issued = [c \in KnownConnections(profile) |-> <<>>]
    /\ completed = [c \in KnownConnections(profile) |-> 0]
    /\ recorded = [c \in KnownConnections(profile) |-> 0]
    /\ NoUnits

SpecRouting == InitRouting /\ [][Next]_vars

(***************************************************************************)
(* Properties of the codec (SpecCodec).                                    *)
(***************************************************************************)
\* C2: profile round-trip. Once the finished file is opened, ProfileReader
\* accepts it and events() is the sequence passed to write_event, field for
\* field and in order.
C2_RoundTrip ==
    reader_pc # "none" => /\ reader.ok
                          /\ reader.events = written

\* A file holding a Set with a value and a conn_id wider than a byte was read.
C2_Witness ==
    /\ reader_pc = "open"
    /\ Len(written) = 3
    /\ \E i \in 1..3 : written[i].value_size.some
    /\ \E i \in 1..3 : written[i].conn_id > 255
    /\ written[1] # written[2]

\* C9: in the finalized file, metadata.total_events is the number of event
\* records of the event region and the command distribution sums to it.
C9_MetadataCounts ==
    reader_pc # "none" =>
        /\ reader.metadata.total_events = Len(reader.events)
        /\ SumValues(reader.metadata.command_distribution) = reader.metadata.total_events
        /\ reader.metadata = writer.metadata

\* A file of three events with a repeated command type was finalized and read.
C9_Witness ==
    /\ reader_pc = "open"
    /\ reader.metadata.total_events = 3
    /\ \E c \in DOMAIN reader.metadata.command_distribution :
           reader.metadata.command_distribution[c] = 2

\* C24: a finalized profile of at least one event has a time_range whose
\* first timestamp is not after its last, whatever events were written.
C24_TimeRangeOrdered ==
    (writer_pc = "finished" /\ Len(written) > 0) =>
        writer.metadata.time_range[1] <= writer.metadata.time_range[2]

\* C10: metadata.unique_connections is the number of distinct conn_id written,
\* and the pre-scan creates that many queues and that many connection tasks.
C10_UniqueConnections ==
    /\ reader_pc # "none" =>
           reader.metadata.unique_connections = Cardinality(UniqueConnections(written))
    /\ reader_pc = "scanned" =>
           /\ Cardinality(DOMAIN connection_queues) = reader.metadata.unique_connections
           /\ DOMAIN task_pc = DOMAIN connection_queues

\* Three events over two connections were written, read and pre-scanned.
C10_Witness ==
    /\ reader_pc = "scanned"
    /\ Len(written) = 3
    /\ Cardinality(DOMAIN connection_queues) = 2

(***************************************************************************)
(* The replay pipeline under fair scheduling (SpecFair).                   *)
(*                                                                         *)
(* The tokio runtime polls every task that can make progress, so each step *)
(* of the dispatcher, of a connection task, of the aggregator and of run   *)
(* is weakly fair. Nothing obliges the signal to arrive, the 2 s interval  *)
(* to fire before a task returns, or the target to answer: a connect, a    *)
(* write or a read may stay in flight for ever unless TargetAnswers.       *)
(***************************************************************************)
\* The profiles with one event per connection. A finite replay has every read
\* within MaxReads; the profile of two connections is replayed at most once,
\* repeated and infinite replay run over a single connection.
InitFair ==
    /\ Init
    /\ Cardinality(Conns) = Len(profile)
    /\ loop_count # UsizeMax => loop_count * Len(profile) <= MaxReads
    /\ Len(profile) > 1 => loop_count <= 1

Fairness ==
    /\ WF_vars(ReaderOuter)
    /\ WF_vars(ReaderNext)
    /\ WF_vars(ReaderSend)
    /\ WF_vars(ReaderSendCancelled)
    /\ \A c \in {Get1.conn_id, Get2.conn_id} :
          /\ WF_vars(c \in Conns /\ TaskCancelled(c))
          /\ WF_vars(c \in Conns /\ TaskRecv(c))
          /\ WF_vars(c \in Conns /\ TaskChannelClosed(c))
          /\ WF_vars(c \in Conns /\ TaskTickSend(c))
          /\ WF_vars(c \in Conns /\ TaskFinalSnapshot(c))
          /\ WF_vars(c \in Conns /\ RunAwaitTask(c))
    /\ WF_vars(AggCancelled)
    /\ WF_vars(AggMerge)
    /\ WF_vars(AggClosed)
    /\ WF_vars(RunAwaitReader)
    /\ WF_vars(RunAwaitStats)

SpecFair == InitFair /\ [][Next]_vars /\ Fairness

\* The target accepts or refuses every connection and answers or fails every
\* request: no socket operation stays in flight for ever.
TargetAnswers ==
    \A c \in {Get1.conn_id, Get2.conn_id} :
        /\ WF_vars(c \in Conns /\ (TaskConnect(c) \/ TaskConnectFail(c)))
        /\ WF_vars(c \in Conns /\ (TaskWrite(c) \/ TaskWriteFail(c)))
        /\ WF_vars(c \in Conns /\ (TaskRead(c) \/ TaskReadFail(c)))

(***************************************************************************)
(* Properties of the replay pipeline (Spec).                               *)
(***************************************************************************)
\* Item a was read from the profile before item b.
Before(a, b) == a.pass < b.pass \/ (a.pass = b.pass /\ a.pos < b.pos)

\* The positions of the profile whose event belongs to connection c, in order.
PositionsOf(c) ==
    SelectSeq([i \in 1..Len(profile) |-> i], LAMBDA i : profile[i].conn_id = c)

\* The positions connection c's task has issued, in the order it issued them.
IssuedPositions(c) == [i \in 1..Len(issued[c]) |-> issued[c][i].pos]

RECURSIVE SumOver(_, _)
SumOver(f, S) ==
    IF S = {} THEN 0
    ELSE LET x == CHOOSE y \in S : TRUE IN f[x] + SumOver(f, S \ {x})

C3_Completeness ==
    (run.pc = "ok" /\ ~cancel_token /\ loop_count = 1) =>
        /\ \A c \in Conns : IssuedPositions(c) = PositionsOf(c)
        /\ total_operations(aggregator) = Len(profile)

\* The scenario profile (3 events, 2 connections) was replayed to the end,
\* one task having sent a periodic snapshot on the way.
C3_Witness ==
    /\ run.pc = "ok"
    /\ ~cancel_token
    /\ loop_count = 1
    /\ Len(profile) = 3
    /\ ticks = 1
    /\ total_operations(aggregator) = 3

\* C4: backpressure. No queue holds more than its capacity, so the queues hold
\* at most unique_connections x capacity events together; the dispatcher holds
\* one further event exactly while it waits in its send.
C4_Backpressure ==
    /\ \A c \in Conns : Len(connection_queues[c]) <= QueueCapacity
    /\ SumOver([c \in Conns |-> Len(connection_queues[c])], Conns)
           <= Cardinality(Conns) * QueueCapacity
    /\ dispatcher.pending # NoEvent <=> dispatcher.pc = "send"

\* The target stalls: a task waits for a response, its queue is full and the
\* dispatcher waits to send it one more event.
C4_Witness ==
    /\ dispatcher.pc = "send"
    /\ dispatcher.pending.event.conn_id = 1
    /\ Len(connection_queues[1]) = QueueCapacity
    /\ task_pc[1] = "read"

\* C5: on cancellation, the aggregator returns only after merging the final
\* snapshot of every task: what it returns counts every success the tasks
\* recorded.
C5_AggregatorHasFinalSnapshots ==
    (cancel_token /\ aggregator.pc = "done" /\ \A c \in Conns : task_pc[c] = "ok") =>
        total_operations(aggregator) = SumOver(recorded, Conns)

\* A connection whose task has not failed.
Healthy(c) == task_pc[c] # "err"

\* The positions of connection c the dispatcher has placed in c's queue.
Dispatched(c) ==
    {issued[c][i].pos : i \in 1..Len(issued[c])}
    \cup {connection_queues[c][i].pos : i \in 1..Len(connection_queues[c])}

\* C8: fault isolation. Under Once, without cancellation and with the
\* profile readable, when the dispatcher is done every event of a connection
\* whose task has not failed was dispatched to it, whatever happened to the
\* other tasks.
C8_FaultIsolation ==
    (dispatcher.pc = "done" /\ ~cancel_token /\ ~dispatcher.failed /\ loop_count = 1) =>
        \A c \in Conns : Healthy(c) =>
            \A i \in 1..Len(profile) : profile[i].conn_id = c => i \in Dispatched(c)

\* The items the dispatcher has placed in c's queue, in the order it sent them.
Sent(c) == issued[c] \o connection_queues[c]

\* One pass over the profile, as connection c receives it.
Pass(c, iteration) ==
    [i \in 1..Len(PositionsOf(c)) |->
        [event |-> profile[PositionsOf(c)[i]], pass |-> iteration, pos |-> PositionsOf(c)[i]]]

\* The first n passes, one after the other.
RECURSIVE Passes(_, _)
Passes(c, n) == IF n = 0 THEN <<>> ELSE Passes(c, n - 1) \o Pass(c, n - 1)

\* C12: loop mode. Under Times(N), Once being Times(1), without cancellation,
\* with the profile readable and no task failed, the dispatcher when done has
\* sent every connection its events N times over, as N complete passes in
\* profile order; the streamer was reset between the passes and stands at the
\* end of the profile after the last; Times(0) sends nothing.
C12_LoopMode ==
    (/\ dispatcher.pc = "done"
     /\ ~cancel_token
     /\ ~dispatcher.failed
     /\ loop_count # UsizeMax
     /\ \A c \in Conns : Healthy(c)) =>
        /\ \A c \in Conns : Sent(c) = Passes(c, loop_count)
        /\ dispatcher.iteration = loop_count
        /\ dispatcher.reads = loop_count * Len(profile)
        /\ dispatcher.current_offset = IF loop_count = 0 THEN 0 ELSE Len(profile)

\* Times(2) over a profile of one event: both passes were sent and the queue
\* is closed.
C12_Witness ==
    /\ dispatcher.pc = "done"
    /\ ~cancel_token
    /\ loop_count = 2
    /\ Len(profile) = 1
    /\ \A c \in Conns : Healthy(c) /\ Len(Sent(c)) = 2

\* Times(0): the dispatcher is done and nothing was sent.
C12_WitnessZero ==
    /\ dispatcher.pc = "done"
    /\ loop_count = 0
    /\ Len(profile) > 0
    /\ \A c \in Conns : Sent(c) = <<>>

\* The dispatcher, every connection task and the aggregator have returned.
Stopped ==
    /\ dispatcher.pc = "done"
    /\ aggregator.pc = "done"
    /\ \A c \in Conns : Exited(c)

\* A connection task waiting for the target: its connect, or the write or the
\* read of a request, is in flight.
InFlight(c) == task_pc[c] \in {"connect", "write", "read"}

\* The dispatcher and the aggregator have returned, and so has every
\* connection task that is not waiting for the target.
Quiesced ==
    /\ dispatcher.pc = "done"
    /\ aggregator.pc = "done"
    /\ \A c \in Conns : Exited(c) \/ InFlight(c)

\* C6: cancellation liveness. Once the token is cancelled the dispatcher, even
\* when blocked sending to a full queue, and the aggregator eventually return,
\* and every connection task returns unless the target leaves its socket
\* operation in flight for ever; when the target answers, everything returns.
C6_CancellationLiveness ==
    /\ [](cancel_token => <>[]Quiesced)
    /\ TargetAnswers => (cancel_token ~> Stopped)

\* The target stalled with the queue full and the dispatcher was cancelled
\* while it held one more event: it has returned, and so has the aggregator.
C6_Witness ==
    /\ cancel_token
    /\ Quiesced
    /\ \E c \in Conns :
          /\ task_pc[c] = "read"
          /\ Len(connection_queues[c]) = QueueCapacity
          /\ dispatcher.reads > Len(issued[c]) + Len(connection_queues[c])

\* run has returned, with Ok or with the error of a failed export.
Returned == run.pc = "ok" \/ (run.pc = "err" /\ run.export = "failed")

\* C7: termination without cancellation. Under Once or Times(N), when the
\* target answers, the token is never cancelled, the profile stays readable
\* and no task fails, run eventually returns: the dispatcher, the tasks and
\* the aggregator have all returned.
C7_Termination ==
    TargetAnswers =>
        <>(\/ Returned /\ Stopped
           \/ cancel_token
           \/ dispatcher.failed
           \/ \E c \in Conns : task_pc[c] = "err"
           \/ loop_count = UsizeMax)

\* A profile of one event replayed twice under Times(2) has ended.
C7_Witness ==
    /\ run.pc = "ok"
    /\ ~cancel_token
    /\ loop_count = 2
    /\ Len(profile) = 1
    /\ total_operations(aggregator) = 2

\* The replay of a profile without events has ended.
C7_WitnessEmpty == run.pc = "ok" /\ ~cancel_token /\ profile = <<>>

\* C25: however reader_task has returned, by completing its iterations, on
\* cancellation, on a streamer error or after a send to a closed queue, it
\* holds no sender any more, so the receive of every connection task whose
\* backlog is consumed reports the queue closed; while it runs it holds them
\* all.
C25_QueuesClosedOnExit ==
    /\ dispatcher.pc = "done" =>
          /\ dispatcher.senders = {}
          /\ \A c \in Conns : connection_queues[c] = <<>> => RecvClosed(c)
    /\ dispatcher.pc # "done" => dispatcher.senders = Conns

\* reader_task returned on cancellation while its send waited on a full
\* queue; the task of another connection waits on its empty, closed queue.
C25_Witness ==
    /\ dispatcher.pc = "done"
    /\ cancel_token
    /\ ~dispatcher.failed
    /\ dispatcher.reads < Len(profile)
    /\ \E c \in Conns : task_pc[c] = "select" /\ RecvClosed(c)
    /\ \E c \in Conns : Len(connection_queues[c]) = QueueCapacity

\* reader_task returned after all its iterations.
C25_WitnessComplete ==
    /\ dispatcher.pc = "done"
    /\ ~cancel_token
    /\ ~dispatcher.failed
    /\ loop_count = 2
    /\ dispatcher.iteration = 2
    /\ \E c \in Conns : task_pc[c] = "select" /\ RecvClosed(c)

\* reader_task returned a streamer error in the middle of a pass.
C25_WitnessStreamError ==
    /\ dispatcher.pc = "done"
    /\ dispatcher.failed
    /\ dispatcher.reads = 1
    /\ Len(profile) = 3
    /\ \E c \in Conns : task_pc[c] = "select" /\ RecvClosed(c)

\* reader_task returned after a send found the queue of a failed task closed.
C25_WitnessConsumerGone ==
    /\ dispatcher.pc = "done"
    /\ ~cancel_token
    /\ ~dispatcher.failed
    /\ loop_count = 1
    /\ dispatcher.reads < Len(profile)
    /\ \E c \in Conns : task_pc[c] = "err"
    /\ \E c \in Conns : task_pc[c] = "select" /\ RecvClosed(c)

\* C26: queues drain on cancellation. After the token is cancelled a
\* connection task exits only once every event the dispatcher had placed in
\* its queue was issued: nothing is left in the queue of a task that returned.
C26_QueuesDrainOnCancel ==
    cancel_token =>
        \A c \in Conns : task_pc[c] \in {"final", "ok"} => connection_queues[c] = <<>>

\* C27: cancellation never interrupts a command in flight. A task that has
\* left its loop on cancellation has written every request it began, read its
\* response and recorded its outcome; it holds no event.
C27_InFlightCompletes ==
    cancel_token =>
        \A c \in Conns : task_pc[c] \in {"final", "ok"} =>
            /\ completed[c] = Len(issued[c])
            /\ recorded[c] = Len(issued[c])
            /\ task_event[c] = NoEvent

\* The token was cancelled while a task had a request in flight: the task is
\* still reading the response.
C27_WitnessInFlight ==
    /\ cancel_token
    /\ \E c \in Conns : task_pc[c] = "read" /\ dispatcher.pc = "done"

\* A task returned on cancellation after completing the one request it had
\* begun, leaving the next event in its queue.
C27_Witness ==
    /\ cancel_token
    /\ \E c \in Conns :
          /\ task_pc[c] = "ok"
          /\ Len(issued[c]) = 1
          /\ recorded[c] = 1
          /\ connection_queues[c] # <<>>

\* C28: a connection task sends a final snapshot on every exit path, a write
\* or read failure included, so no error it recorded stays behind in its own
\* stats: once it has returned its stats are empty, and without cancellation
\* the aggregator's error counts hold one error per failed request.
C28_FinalSnapshotOnEveryExit ==
    /\ \A c \in Conns : Exited(c) => local_stats[c] = ConnectionStats_new
    /\ (aggregator.pc = "done" /\ ~cancel_token) =>
           SumValues(aggregator.error_counts)
             = Cardinality({c \in Conns : task_pc[c] = "err" /\ Len(issued[c]) > recorded[c]})

\* C29: an event whose conn_id has no queue is dropped and the pass goes on.
\* Under Times(N), without cancellation, with the profile readable and no
\* task failed, the dispatcher when done has read every event of every pass
\* and sent each connection that has a queue all its events, those behind an
\* event of the unknown conn_id included; no queue ever holds an event of
\* the unknown conn_id.
C29_UnknownConnDropped ==
    /\ (/\ dispatcher.pc = "done"
        /\ ~cancel_token
        /\ ~dispatcher.failed
        /\ loop_count # UsizeMax
        /\ \A c \in Conns : Healthy(c)) =>
           /\ \A c \in Conns : Sent(c) = Passes(c, loop_count)
           /\ dispatcher.reads = loop_count * Len(profile)
    /\ \A c \in Conns : \A i \in 1..Len(Sent(c)) : Sent(c)[i].event.conn_id \in Conns

\* The scenario profile was replayed once with no queue for connection 2:
\* the dispatcher read its three events and connection 1 was sent its two,
\* the second of them behind the event that was dropped.
C29_Witness ==
    /\ dispatcher.pc = "done"
    /\ ~cancel_token
    /\ ~dispatcher.failed
    /\ loop_count = 1
    /\ profile = <<Get1, Get2, Set1>>
    /\ Conns = {1}
    /\ dispatcher.reads = 3
    /\ Healthy(1)
    /\ Len(Sent(1)) = 2

\* Every item that was placed in some queue, with the queue it was placed in.
Routed ==
    UNION {{[conn |-> c, item |-> Sent(c)[i], at |-> i] : i \in 1..Len(Sent(c))} : c \in Conns}

\* C30: routing. Every event a connection task receives, or finds in its
\* queue, is the profile's event at its position and carries the task's
\* conn_id; within one pass an event of the profile is placed in one queue at
\* most and once at most.
C30_RoutedOnce ==
    /\ \A r \in Routed :
          /\ r.item.event.conn_id = r.conn
          /\ r.item.event = profile[r.item.pos]
    /\ \A r, q \in Routed :
          (r.item.pass = q.item.pass /\ r.item.pos = q.item.pos) => r = q

\* The scenario profile was sent: connection 1 got its two events, in profile
\* order, and connection 2 its one.
C30_Witness ==
    /\ Conns = {1, 2}
    /\ profile = <<Get1, Get2, Set1>>
    /\ Len(Sent(1)) = 2
    /\ Sent(1)[1].pos = 1
    /\ Sent(1)[2].pos = 3
    /\ Len(Sent(2)) = 1
    /\ Sent(2)[1].pos = 2

\* Some task of the pipeline returned an error: the reader task or a
\* connection task.
TaskError == dispatcher.failed \/ \E c \in Conns : task_pc[c] = "err"

\* C23, as claimed: run returns an error exactly when the reader task or a
\* connection task returned one; a run that only cancellation ended returns Ok.
C23_ErrorIffTaskError ==
    run.pc \in {"ok", "err"} => (run.pc = "err" <=> TaskError)

\* C23, amended: once its tasks are spawned, run returns an error exactly
\* when the reader task or a connection task returned one or the statistics
\* file asked for could not be written; a run that only cancellation ended,
\* with no such failure, returns Ok.
C23_ErrorIffTaskOrExportError ==
    run.pc \in {"ok", "err"} => (run.pc = "err" <=> (TaskError \/ run.export = "failed"))

\* A run ended by cancellation alone has returned Ok: a request had been
\* issued, the token was cancelled, every task returned Ok.
C23_Witness ==
    /\ run.pc = "ok"
    /\ cancel_token
    /\ ~TaskError
    /\ dispatcher.reads < Len(profile)
    /\ \E c \in Conns : Len(issued[c]) > 0

\* run has returned the error of a connection task whose read failed.
C23_WitnessTaskError ==
    /\ run.pc = "err"
    /\ ~dispatcher.failed
    /\ run.export = "pending"
    /\ \E c \in Conns : task_pc[c] = "err" /\ Len(issued[c]) > 0

\* run has returned the error of the export, every task having returned Ok.
C23_WitnessExport == run.pc = "err" /\ ~TaskError /\ run.export = "failed"

(***************************************************************************)
(* record/parser.rs: MemcacheParser::parse_command over a byte slice.      *)
(***************************************************************************)
\* b'\n', b'\r' and b' '
LF == 10
CR == 13
SP == 32

\* input.iter().position(|&b| b == x): the 0-based index of the first x, or -1.
Position(input, x) ==
    IF \E i \in 1..Len(input) : input[i] = x
    THEN (CHOOSE i \in 1..Len(input) :
              input[i] = x /\ \A j \in 1..(i - 1) : input[j] # x) - 1
    ELSE -1

\* line.split(|&b| b == b' '): the parts between separators, at least one.
RECURSIVE Split(_, _)
Split(line, x) ==
    LET at == Position(line, x)
    IN  IF at < 0 THEN <<line>>
        ELSE <<SubSeq(line, 1, at)>> \o Split(SubSeq(line, at + 2, Len(line)), x)

\* str::to_lowercase on ASCII
to_lowercase(word) ==
    [i \in 1..Len(word) |-> IF word[i] >= 65 /\ word[i] <= 90 THEN word[i] + 32 ELSE word[i]]

\* str::parse::<u32>(): decimal digits only, at least one.
RECURSIVE DecimalValue(_)
DecimalValue(digits) ==
    IF digits = <<>> THEN 0
    ELSE 10 * DecimalValue(SubSeq(digits, 1, Len(digits) - 1)) + (digits[Len(digits)] - 48)

ParseU32(word) ==
    IF word # <<>> /\ \A i \in 1..Len(word) : word[i] >= 48 /\ word[i] <= 57
    THEN [ok |-> TRUE, v |-> DecimalValue(word)]
    ELSE [ok |-> FALSE, v |-> 0]

\* match cmd.as_str() { "get" | "mg" => Get, ... , _ => Err }
CommandOf(cmd) ==
    CASE cmd \in {<<103, 101, 116>>, <<109, 103>>} -> "Get"
      [] cmd \in {<<115, 101, 116>>, <<109, 115>>} -> "Set"
      [] cmd \in {<<100, 101, 108, 101, 116, 101>>, <<109, 100>>} -> "Delete"
      [] cmd \in {<<110, 111, 111, 112>>, <<109, 110>>} -> "Noop"
      [] OTHER -> "unknown"

\* What parse_command returns: Ok((ParsedCommand, rest)), Err(anyhow!(...)),
\* or a panic of the slice arithmetic.
ParseErr(msg) ==
    [kind |-> "Err", msg |-> msg, cmd_type |-> "Get", key_start |-> 0, key_end |-> 0,
     value_size |-> None, rest |-> <<>>]

ParsePanic == [ParseErr("index out of range") EXCEPT !.kind = "Panic"]

\* let value_size = if cmd_type == Set && parts.len() > 2 { Some(parse()?) } else { None }
ValueSizeOf(cmd_type, parts) ==
    IF cmd_type = "Set" /\ Len(parts) > 2
    THEN [ok |-> ParseU32(parts[3]).ok, v |-> Some(ParseU32(parts[3]).v)]
    ELSE [ok |-> TRUE, v |-> None]

\* MemcacheParser::parse_command
parse_command(input) ==
    LET line_end == Position(input, LF)
    IN  IF line_end < 0 THEN ParseErr("no newline")
        ELSE IF line_end = 0 THEN ParsePanic  \* line_end - 1 underflows
        ELSE
        LET line == SubSeq(input, 1, line_end - 1)
            rest == SubSeq(input, line_end + 2, Len(input))
            parts == Split(line, SP)
            cmd_type == CommandOf(to_lowercase(parts[1]))
        IN  IF cmd_type = "unknown" THEN ParseErr("unknown command")
            ELSE IF Len(parts) < 2 THEN ParseErr("missing key")
            ELSE IF ~ValueSizeOf(cmd_type, parts).ok THEN ParseErr("invalid digit")
            ELSE [kind |-> "Ok", msg |-> "", cmd_type |-> cmd_type,
                  key_start |-> Len(parts[1]) + 1,
                  key_end |-> Len(parts[1]) + 1 + Len(parts[2]),
                  value_size |-> ValueSizeOf(cmd_type, parts).v,
                  rest |-> rest]

(***************************************************************************)
(* SpecParser: a request reaches parse_command in two pieces.              *)
(***************************************************************************)
\* 'mg foo v\r\n'
ReqMgFoo == <<109, 103, 32, 102, 111, 111, 32, 118, 13, 10>>
\* 'get k\r\n'
ReqGet == <<103, 101, 116, 32, 107, 13, 10>>
\* 'ms k 5\r\nhello\r\n'
ReqMsHello == <<109, 115, 32, 107, 32, 53, 13, 10, 104, 101, 108, 108, 111, 13, 10>>
\* 'set k 0\r\n\r\n'
ReqSetZero == <<115, 101, 116, 32, 107, 32, 48, 13, 10, 13, 10>>
\* 'set k\r\n'
ReqSetNoLength == <<115, 101, 116, 32, 107, 13, 10>>
\* 'md k\r\n'
ReqMd == <<109, 100, 32, 107, 13, 10>>
\* 'delete k\r\n'
ReqDelete == <<100, 101, 108, 101, 116, 101, 32, 107, 13, 10>>
\* 'mn\r\n'
ReqMn == <<109, 110, 13, 10>>
\* 'noop\r\n'
ReqNoop == <<110, 111, 111, 112, 13, 10>>
\* 'MG k\r\n'
ReqUpper == <<77, 71, 32, 107, 13, 10>>
\* 'xx k\r\n'
ReqUnknown == <<120, 120, 32, 107, 13, 10>>
\* 'ms k v\r\n'
ReqBadLength == <<109, 115, 32, 107, 32, 118, 13, 10>>

Requests ==
    {ReqMgFoo, ReqGet, ReqMsHello, ReqSetZero, ReqSetNoLength, ReqMd, ReqDelete,
     ReqMn, ReqNoop, ReqUpper, ReqUnknown, ReqBadLength}

\* The state of the codec and of the replay pipeline.
program_vars ==
    <<writer, writer_pc, written, disk, reader, reader_pc, profile, loop_count,
      cancel_token, dispatcher, connection_queues, task_pc, task_event, local_stats,
      ticks, stats_channel, aggregator, run, issued, completed, recorded>>

\* It stays as it is before anything runs.
Parked ==
    /\ writer = ProfileWriter_new
    /\ writer_pc = "open"
    /\ written = <<>>
    /\ disk = <<>>
    /\ reader = NoReader
    /\ reader_pc = "none"
    /\ connection_queues = <<>>
    /\ task_pc = <<>>
    /\ profile = <<>>
    /\ loop_count = 0
    /\ cancel_token = FALSE
    /\ dispatcher = [pc |-> "done", iteration |-> 0, current_offset |-> 0,
                     pending |-> <<>>, reads |-> 0, failed |-> FALSE, senders |-> {}]
    /\ task_event = <<>>
    /\ local_stats = <<>>
    /\ ticks = 0
    /\ stats_channel = <<>>
    /\ aggregator = [pc |-> "done", success_counts |-> <<>>, error_counts |-> <<>>]
    /\ run = [pc |-> "scan", awaited |-> {}, export |-> "pending"]
    /\ issued = <<>>
    /\ completed = <<>>
    /\ recorded = <<>>

NoResult == [ParseErr("") EXCEPT !.kind = "none"]

InitParser ==
    /\ Parked
    /\ reassembler = <<>>
    /\ streamer = <<>>
    /\ capture = <<>>
    /\ generator = <<>>
    /\ bench = <<>>
    /\ client = <<>>
    /\ \E request \in Requests :
       \E cut \in 0..Len(request) :
          parser = [request |-> request, cut |-> cut, fed |-> <<>>, calls |-> 0,
                       first |-> NoResult, result |-> NoResult]

\* The first `cut` bytes of the request arrive; parse_command(&buffer).
feed_first ==
    /\ parser.calls = 0
    /\ LET fed == SubSeq(parser.request, 1, parser.cut)
       IN  parser' = [parser EXCEPT !.fed = fed, !.calls = 1,
                                    !.first = parse_command(fed),
                                    !.result = parse_command(fed)]
    /\ UNCHANGED <<program_vars, streamer, reassembler, capture, generator, bench, client>>

\* The rest arrives behind it; parse_command(&buffer) again.
feed_rest ==
    /\ parser.calls = 1
    /\ parser' = [parser EXCEPT !.fed = parser.request, !.calls = 2,
                                !.result = parse_command(parser.request)]
    /\ UNCHANGED <<program_vars, streamer, reassembler, capture, generator, bench, client>>

NextParser == feed_first \/ feed_rest

SpecParser == InitParser /\ [][NextParser]_vars

(***************************************************************************)
(* replay/generator.rs: TrafficGenerator::next_command.                    *)
(***************************************************************************)
\* std::num::NonZero::new(n)
NonZero_new(n) == IF n = 0 THEN None ELSE Some(n)

\* sample_command: r = rng % total walks the map; any command whose count is
\* positive can come out, and Get when the counts sum to 0.
sample_command(analysis) ==
    IF SumValues(analysis.command_distribution) = 0 THEN {"Get"}
    ELSE {c \in DOMAIN analysis.command_distribution : analysis.command_distribution[c] > 0}

\* sample_value_size: likewise over the Vec<(size, count)>; 100 when it is
\* empty or its counts sum to 0.
sample_value_size(analysis) ==
    LET dist == analysis.value_size_distribution
    IN  IF \A i \in 1..Len(dist) : dist[i][2] = 0 THEN {100}
        ELSE {dist[i][1] : i \in {j \in 1..Len(dist) : dist[j][2] > 0}}

\* The events next_command can return (timestamp, conn_id, key_hash and
\* key_size are drawn from the rng and left out).
next_command(analysis) ==
    {[cmd_type |-> c, value_size |-> IF c = "Set" THEN NonZero_new(n) ELSE None] :
        c \in sample_command(analysis), n \in sample_value_size(analysis)}

(***************************************************************************)
(* record/main.rs: run, the record loop over a packet source.              *)
(***************************************************************************)
\* packet_data.windows(n).position(|w| w == pattern): 0-based, or -1.
WindowPosition(data, pattern) ==
    LET hits == {i \in 1..(Len(data) - Len(pattern) + 1) :
                     SubSeq(data, i, i + Len(pattern) - 1) = pattern}
    IN  IF hits = {} THEN -1 ELSE (CHOOSE i \in hits : \A j \in hits : i <= j) - 1

\* packet_data[..pos].windows(3).rposition(|w| w is "get", "set", "del" or "noo")
CommandStart(data) ==
    LET words == {<<103, 101, 116>>, <<115, 101, 116>>, <<100, 101, 108>>, <<110, 111, 111>>}
        hits == {i \in 1..(Len(data) - 2) : SubSeq(data, i, i + 2) \in words}
    IN  IF hits = {} THEN -1 ELSE (CHOOSE i \in hits : \A j \in hits : i >= j) - 1

\* The bytes of the packet handed to the parser.
Payload(packet_data) ==
    LET pos == WindowPosition(packet_data, <<CR, LF>>)
    IN  IF pos < 0 THEN packet_data
        ELSE LET cmd_start == CommandStart(SubSeq(packet_data, 1, pos))
             IN  IF cmd_start < 0 THEN packet_data
                 ELSE SubSeq(packet_data, cmd_start + 1, Len(packet_data))

\* data_str.contains('\r') && data_str.contains('\n')
LooksLikeCommand(payload) == Position(payload, CR) >= 0 /\ Position(payload, LF) >= 0

\* The Event run builds from a parsed command; `key` stands for key_hash, the
\* anonymizer's hash of these bytes.
RecordedEvent(packet_count, payload, cmd) ==
    [conn_id |-> packet_count % 32,
     cmd_type |-> cmd.cmd_type,
     key |-> SubSeq(payload, cmd.key_start + 1, cmd.key_end),
     key_size |-> cmd.key_end - cmd.key_start,
     value_size |-> cmd.value_size]

\* The body of the Ok(packet_data) arm: what the loop's state becomes.
ProcessPacket(c, packet_data) ==
    LET payload == Payload(packet_data)
        count == c.packet_count + 1
        cmd == parse_command(payload)
    IN  IF ~LooksLikeCommand(payload) THEN [c EXCEPT !.packet_count = count]
        ELSE IF cmd.kind = "Panic" THEN [c EXCEPT !.packet_count = count, !.pc = "panicked"]
        ELSE IF cmd.kind = "Err" THEN [c EXCEPT !.packet_count = count]
        ELSE [c EXCEPT !.packet_count = count,
                       !.events = Append(@, RecordedEvent(count, payload, cmd))]

(***************************************************************************)
(* SpecRecord: requests reach the record loop cut into packets; the        *)
(* generator produces events beside it.                                    *)
(***************************************************************************)
\* Polls of the source that return an error, of either kind, before the model
\* stops following them.
MaxPolls == 2
\* Events taken from the generator.
MaxGenerated == 1

\* The requests on the recorded flow: one or two of them.
FlowRequests == {ReqMgFoo, ReqGet, ReqMsHello, ReqSetNoLength, ReqSetZero}

Flows == {<<r>> : r \in FlowRequests} \cup {<<ReqGet, r>> : r \in FlowRequests}

RECURSIVE Concat(_)
Concat(seqs) == IF seqs = <<>> THEN <<>> ELSE Head(seqs) \o Concat(Tail(seqs))

\* The byte stream cut into one packet, or into two at `cut`.
Packets(stream, cut) ==
    IF cut = 0 \/ cut >= Len(stream) THEN <<stream>>
    ELSE <<SubSeq(stream, 1, cut), SubSeq(stream, cut + 1, Len(stream))>>

\* The analyses the generator is built on.
Analyses ==
    { [command_distribution |-> <<>>, value_size_distribution |-> <<>>],
      [command_distribution |-> [c \in {"Get", "Set"} |-> 1],
       value_size_distribution |-> <<<<100, 1>>>>],
      [command_distribution |-> [c \in {"Set"} |-> 2],
       value_size_distribution |-> <<<<0, 1>>, <<100, 1>>>>] }

InitRecord ==
    /\ Parked
    /\ reassembler = <<>>
    /\ streamer = <<>>
    /\ parser = <<>>
    /\ bench = <<>>
    /\ client = <<>>
    /\ \E analysis \in Analyses : generator = [analysis |-> analysis, events |-> <<>>]
    /\ \E flow \in Flows, finite \in BOOLEAN :
       \E cut \in 0..(Len(Concat(flow)) - 1) :
          capture = [pc |-> "loop", finite |-> finite, flow |-> flow,
                     pending |-> Packets(Concat(flow), cut), should_exit |-> FALSE,
                     packet_count |-> 0, events |-> <<>>, timeouts |-> 0,
                     end_polls |-> 0, finish_calls |-> 0]

record_unchanged == UNCHANGED <<program_vars, streamer, reassembler, parser, generator, bench, client>>

\* The Ctrl+C handler: should_exit.store(true).
RecordSignal ==
    /\ capture.pc = "loop"
    /\ ~capture.should_exit
    /\ capture' = [capture EXCEPT !.should_exit = TRUE]
    /\ record_unchanged

\* if should_exit.load() { break }, then writer.finish().
RecordExit ==
    /\ capture.pc = "loop"
    /\ capture.should_exit
    /\ capture' = [capture EXCEPT !.pc = "finished", !.finish_calls = @ + 1]
    /\ record_unchanged

\* capture.next_packet() returns Ok(packet_data).
RecordPacket ==
    /\ capture.pc = "loop"
    /\ ~capture.should_exit
    /\ capture.pending # <<>>
    /\ capture' = [ProcessPacket(capture, Head(capture.pending)) EXCEPT
                      !.pending = Tail(capture.pending)]
    /\ record_unchanged

\* capture.next_packet() returns Ok(packet_data), the packet parses as a
\* command and writer.write_event(&event)? returns Err (the disk is full):
\* run returns the error.
RecordWriteFail ==
    /\ capture.pc = "loop"
    /\ ~capture.should_exit
    /\ capture.pending # <<>>
    /\ LET after == ProcessPacket(capture, Head(capture.pending))
       IN  /\ Len(after.events) > Len(capture.events)
           /\ capture' = [capture EXCEPT !.pc = "failed",
                                         !.packet_count = after.packet_count,
                                         !.pending = Tail(capture.pending)]
    /\ record_unchanged

\* capture.next_packet() of a live source returns Err: the read timed out.
\* Err(_) => continue.
RecordTimeout ==
    /\ capture.pc = "loop"
    /\ ~capture.should_exit
    /\ ~capture.finite
    /\ capture.timeouts < MaxPolls
    /\ capture' = [capture EXCEPT !.timeouts = @ + 1]
    /\ record_unchanged

\* capture.next_packet() of a capture file returns Err: no more packets.
\* Err(_) => continue.
RecordEnd ==
    /\ capture.pc = "loop"
    /\ ~capture.should_exit
    /\ capture.finite
    /\ capture.pending = <<>>
    /\ capture.end_polls < MaxPolls
    /\ capture' = [capture EXCEPT !.end_polls = @ + 1]
    /\ record_unchanged

\* generator.next_command()
GeneratorNext ==
    /\ Len(generator.events) < MaxGenerated
    /\ \E event \in next_command(generator.analysis) :
          generator' = [generator EXCEPT !.events = Append(@, event)]
    /\ UNCHANGED <<program_vars, streamer, reassembler, capture, parser, bench, client>>

NextRecord ==
    \/ RecordSignal
    \/ RecordExit
    \/ RecordPacket
    \/ RecordWriteFail
    \/ RecordTimeout
    \/ RecordEnd
    \/ GeneratorNext

SpecRecord == InitRecord /\ [][NextRecord]_vars

(***************************************************************************)
(* SpecStats: record_success, record_error and snapshot on the stats of    *)
(* two connections, and the aggregator merging the snapshots in any order. *)
(***************************************************************************)
\* Calls of record_success and record_error followed.
MaxRecords == 3
\* Calls of snapshot followed.
MaxSnapshots == 2

StatsConns == {1, 2}

StatsCommands == {"Get", "Set"}

\* ConnectionStats::get_count / get_error_count, AggregatedStats's counters:
\* the count under one key, 0 when the map has no such key.
CountOf(map, k) == IF k \in DOMAIN map THEN map[k] ELSE 0

InitStats ==
    /\ Parked
    /\ reassembler = <<>>
    /\ streamer = <<>>
    /\ capture = <<>>
    /\ parser = <<>>
    /\ generator = <<>>
    /\ client = <<>>
    /\ bench = [stats |-> [c \in StatsConns |-> ConnectionStats_new],
                emitted |-> <<>>,
                aggregated |-> [success_counts |-> <<>>, error_counts |-> <<>>],
                successes |-> 0,
                errors |-> [e \in ErrorType |-> 0],
                snapshots |-> 0,
                merged |-> 0,
                \* the connection whose snapshot() was the last call made, or 0
                snapshot_of |-> 0]

stats_unchanged == UNCHANGED <<program_vars, streamer, reassembler, capture, parser, generator, client>>

\* local_stats.record_success(cmd_type, latency) on connection c
StatsRecordSuccess(c, cmd_type) ==
    /\ bench.successes + SumValues(bench.errors) < MaxRecords
    /\ bench' = [bench EXCEPT !.stats[c] = record_success(@, cmd_type),
                              !.successes = @ + 1,
                              !.snapshot_of = 0]
    /\ stats_unchanged

\* local_stats.record_error(cmd_type, error_type) on connection c
StatsRecordError(c, error_type) ==
    /\ bench.successes + SumValues(bench.errors) < MaxRecords
    /\ bench' = [bench EXCEPT !.stats[c] = record_error(@, error_type),
                              !.errors[error_type] = @ + 1,
                              !.snapshot_of = 0]
    /\ stats_unchanged

\* stats_tx.send(local_stats.snapshot()): the snapshot is emitted and the
\* three maps are cleared.
StatsSnapshot(c) ==
    /\ bench.snapshots < MaxSnapshots
    /\ bench' = [bench EXCEPT !.emitted = Append(@, snapshot(c, bench.stats[c])),
                              !.stats[c] = [@ EXCEPT !.success_counts = <<>>,
                                                     !.error_counts = <<>>],
                              !.snapshots = @ + 1,
                              !.snapshot_of = c]
    /\ stats_unchanged

\* aggregated.merge(snapshot), the emitted snapshots taken in any order.
StatsMerge ==
    /\ \E i \in 1..Len(bench.emitted) :
          bench' = [bench EXCEPT
                       !.aggregated = merge(@, bench.emitted[i]),
                       !.emitted = SubSeq(@, 1, i - 1) \o SubSeq(@, i + 1, Len(@)),
                       !.merged = @ + 1,
                       !.snapshot_of = 0]
    /\ stats_unchanged

NextStats ==
    \/ \E c \in StatsConns, cmd_type \in StatsCommands : StatsRecordSuccess(c, cmd_type)
    \/ \E c \in StatsConns, error_type \in ErrorType : StatsRecordError(c, error_type)
    \/ \E c \in StatsConns : StatsSnapshot(c)
    \/ StatsMerge

SpecStats == InitStats /\ [][NextStats]_vars

(***************************************************************************)
(* replay/client.rs: ReplayClient::generate_key.                           *)
(***************************************************************************)
\* The lower-case hex digit of d, as its character code.
HexDigit(d) == IF d < 10 THEN 48 + d ELSE 87 + d

\* {:x}: the hex digits of n, without leading zeros.
RECURSIVE format_x(_)
format_x(n) ==
    IF n < 16 THEN <<HexDigit(n)>> ELSE format_x(n \div 16) \o <<HexDigit(n % 16)>>

\* Padding with '0' on the left up to `width` characters.
RECURSIVE ZeroPad(_, _)
ZeroPad(str, width) == IF Len(str) >= width THEN str ELSE ZeroPad(<<48>> \o str, width)

\* Mutation: format!("{:x}", key_hash), no padding.
format_016x_unpadded(key_hash) == format_x(key_hash)

\* format!("{:016x}", key_hash)
format_016x(key_hash) == ZeroPad(format_x(key_hash), 16)

\* str::repeat(n)
RECURSIVE repeat(_, _)
repeat(str, n) == IF n = 0 THEN <<>> ELSE str \o repeat(str, n - 1)

\* Mutation: the repeated string is not cut to key_size.
take_all(str, n) == str

\* .chars().take(n).collect()
take(str, n) == SubSeq(str, 1, IF n < Len(str) THEN n ELSE Len(str))

\* ReplayClient::generate_key
generate_key(key_hash, key_size) ==
    IF key_size = 0 THEN <<>>
    ELSE LET hash_hex == format_016x(key_hash)
         IN  take(repeat(hash_hex, ((key_size + Len(hash_hex) - 1) \div Len(hash_hex)) + 1),
                  key_size)

(***************************************************************************)
(* SpecKeys: the client builds the keys of the events it replays.          *)
(***************************************************************************)
\* Keys built in one run.
MaxKeys == 2

\* The key hashes replayed: 0x0, 0x1, 0x2, 0x11, 0xab, 0x10000000, 0x7fffffff.
KeyHashes == {0, 1, 2, 17, 171, 268435456, 2147483647}

\* The key sizes replayed, around the 16 digits of the rendering.
KeySizes == {0, 1, 8, 15, 16, 17, 33}

InitKeys ==
    /\ Parked
    /\ reassembler = <<>>
    /\ streamer = <<>>
    /\ capture = <<>>
    /\ parser = <<>>
    /\ generator = <<>>
    /\ bench = <<>>
    /\ client = [keys |-> <<>>]

\* build_command_string: let key = self.generate_key(event.key_hash, event.key_size)
BuildKey ==
    /\ Len(client.keys) < MaxKeys
    /\ \E key_hash \in KeyHashes, key_size \in KeySizes :
          client' = [client EXCEPT !.keys =
                        Append(@, [key_hash |-> key_hash, key_size |-> key_size,
                                   key |-> generate_key(key_hash, key_size)])]
    /\ UNCHANGED <<program_vars, streamer, reassembler, capture, parser, generator, bench>>

NextKeys == BuildKey

SpecKeys == InitKeys /\ [][NextKeys]_vars

(***************************************************************************)
(* record/stream_reassembler.rs: StreamReassembler.                        *)
(***************************************************************************)
\* Mutation: an unstable sort; a segment goes in front of the segments of
\* its own sequence number.
RECURSIVE sort_insert_unstable(_, _)
sort_insert_unstable(sorted, segment) ==
    IF sorted = <<>> THEN <<segment>>
    ELSE IF segment.seq <= Head(sorted).seq THEN <<segment>> \o sorted
    ELSE <<Head(sorted)>> \o sort_insert_unstable(Tail(sorted), segment)

\* One step of the stable sort: the segment goes behind every segment whose
\* key is not greater than its own.
RECURSIVE sort_insert(_, _)
sort_insert(sorted, segment) ==
    IF sorted = <<>> THEN <<segment>>
    ELSE IF segment.seq < Head(sorted).seq THEN <<segment>> \o sorted
    ELSE <<Head(sorted)>> \o sort_insert(Tail(sorted), segment)

\* segments.sort_by_key(|(seq, _)| *seq): a stable sort.
RECURSIVE sort_by_key(_)
sort_by_key(segments) ==
    IF segments = <<>> THEN <<>>
    ELSE sort_insert(sort_by_key(SubSeq(segments, 1, Len(segments) - 1)),
                     segments[Len(segments)])

\* StreamReassembler::add_packet: entry(conn_id).or_insert_with(empty buffer),
\* push, sort.
add_packet(streams, conn_id, seq, data) ==
    LET buffer == IF conn_id \in DOMAIN streams THEN streams[conn_id] ELSE <<>>
        pushed == Append(buffer, [seq |-> seq, data |-> data])
    IN  [c \in DOMAIN streams \cup {conn_id} |->
            IF c = conn_id THEN sort_by_key(pushed) ELSE streams[c]]

\* segments.iter().flat_map(|(_, data)| data).collect()
RECURSIVE flat_map(_)
flat_map(segments) ==
    IF segments = <<>> THEN <<>> ELSE Head(segments).data \o flat_map(Tail(segments))

\* StreamReassembler::get_stream
get_stream(streams, conn_id) ==
    IF conn_id \in DOMAIN streams THEN flat_map(streams[conn_id]) ELSE <<>>

(***************************************************************************)
(* SpecReassembler: segments of two flows arrive in any order.             *)
(***************************************************************************)
\* Calls of add_packet followed.
MaxSegments == 3

\* The flows (ConnKey values) segments arrive on; flow 3 never sends.
FlowKeys == {1, 2, 3}

SendingFlows == {1, 2}

\* The sequence numbers segments carry.
SeqNumbers == {100, 105, 110}

\* The payloads segments carry: 'a', 'b', 'cd'.
SegmentPayloads == {<<97>>, <<98>>, <<99, 100>>}

\* StreamReassembler::new; `arrivals` keeps every add_packet call in order,
\* `last` the flow of the last call, whether a segment of that flow, seq and
\* payload was buffered already, and the flow's stream before the call.
InitReassembler ==
    /\ Parked
    /\ capture = <<>>
    /\ parser = <<>>
    /\ generator = <<>>
    /\ bench = <<>>
    /\ client = <<>>
    /\ streamer = <<>>
    /\ reassembler = [streams |-> <<>>, arrivals |-> <<>>,
                      last |-> [conn_id |-> 0, duplicate |-> FALSE, before |-> <<>>]]

\* reassembler.add_packet(conn_id, seq, data)
AddPacket ==
    /\ Len(reassembler.arrivals) < MaxSegments
    /\ \E conn_id \in SendingFlows, seq \in SeqNumbers, data \in SegmentPayloads :
          reassembler' =
              [streams |-> add_packet(reassembler.streams, conn_id, seq, data),
               arrivals |-> Append(reassembler.arrivals,
                                   [conn_id |-> conn_id, seq |-> seq, data |-> data]),
               last |-> [conn_id |-> conn_id,
                         duplicate |->
                             \E i \in 1..Len(reassembler.arrivals) :
                                 reassembler.arrivals[i] =
                                     [conn_id |-> conn_id, seq |-> seq, data |-> data],
                         before |-> get_stream(reassembler.streams, conn_id)]]
    /\ UNCHANGED <<program_vars, streamer, capture, parser, generator, bench, client>>

NextReassembler == AddPacket

SpecReassembler == InitReassembler /\ [][NextReassembler]_vars

(***************************************************************************)
(* replay/streamer.rs: ProfileStreamer.                                    *)
(***************************************************************************)
\* The builds of the crate: with overflow checks (dev profile) and without
\* (release profile).
Builds == {"debug", "release"}

\* a - b on usize: a panic under overflow checks, the wrapped value without
\* them (UsizeMax + 1 stands for 2^64).
SubUsize(a, b, build) ==
    IF a >= b THEN [panic |-> FALSE, v |-> a - b]
    ELSE IF build = "debug" THEN [panic |-> TRUE, v |-> 0]
    ELSE [panic |-> FALSE, v |-> UsizeMax + 1 - (b - a)]

NoStreamer == [kind |-> "none", event_end_offset |-> 0, current_offset |-> 0]

\* A slip: event_end_offset taken before the length field, the metadata
\* block counted as events.
ProfileStreamer_new_no_metadata(data, build) ==
    IF Len(data) < 6 THEN [NoStreamer EXCEPT !.kind = "err"]
    ELSE IF Slice(data, Len(data) - 4, Len(data)) # MagicBytes
    THEN [NoStreamer EXCEPT !.kind = "err"]
    ELSE [kind |-> "ok", event_end_offset |-> Len(data) - 6, current_offset |-> 0]

\* ProfileStreamer::new on the bytes of a file.
ProfileStreamer_new(data, build) ==
    IF Len(data) < 6 THEN [NoStreamer EXCEPT !.kind = "err"]
    ELSE LET end_marker_pos == Len(data) - 4
         IN  IF Slice(data, end_marker_pos, end_marker_pos + 4) # MagicBytes
             THEN [NoStreamer EXCEPT !.kind = "err"]
             ELSE LET metadata_len_pos == end_marker_pos - 2
                      metadata_len ==
                          from_le_bytes(Slice(data, metadata_len_pos, metadata_len_pos + 2))
                      event_end_offset == SubUsize(metadata_len_pos, metadata_len, build)
                  IN  IF event_end_offset.panic THEN [NoStreamer EXCEPT !.kind = "panic"]
                      ELSE [kind |-> "ok", event_end_offset |-> event_end_offset.v,
                            current_offset |-> 0]

NoEventRead == Event(0, 0, "Get", 0, 0, 0, None)

\* What a call of next_event returns (Ok(Some), Ok(None), Err, or a panic on
\* an index or a slice out of range) and the cursor it leaves.
Outcome(kind, event, current_offset) ==
    [kind |-> kind, event |-> event, current_offset |-> current_offset]

\* ProfileStreamer::next_event
next_event(st, data) ==
    IF st.current_offset >= st.event_end_offset
    THEN Outcome("none", NoEventRead, st.current_offset)
    ELSE IF st.current_offset + 2 > st.event_end_offset
    THEN Outcome("none", NoEventRead, st.current_offset)
    ELSE IF st.current_offset + 2 > Len(data)
    THEN Outcome("panic", NoEventRead, st.current_offset)
    ELSE LET len == from_le_bytes(Slice(data, st.current_offset, st.current_offset + 2))
             start == st.current_offset + 2
         IN  IF start + len > st.event_end_offset
             THEN Outcome("err", NoEventRead, start)
             ELSE IF start + len > Len(data)
             THEN Outcome("panic", NoEventRead, start)
             ELSE LET d == DeserializeEvent(Slice(data, start, start + len))
                  IN  IF ~d.ok THEN Outcome("err", NoEventRead, start)
                      ELSE Outcome("some", d.event, start + len)

\* ProfileStreamer::reset
reset(st) == [st EXCEPT !.current_offset = 0]

(***************************************************************************)
(* SpecStreamer: a file is opened by ProfileStreamer::new and by           *)
(* ProfileReader::new; next_event and reset are called on the streamer.    *)
(***************************************************************************)
\* Calls of next_event followed between two resets, and resets followed.
MaxCalls == 4
MaxResets == 1

\* The profiles written: every sequence of at most two of these events.
StreamedEvents == {Get1, Set1}
StreamedProfiles ==
    {<<>>} \cup {<<a>> : a \in StreamedEvents}
           \cup {<<a, b>> : a \in StreamedEvents, b \in StreamedEvents}

\* A record whose length prefix announces more bytes than the event region
\* holds, and a record bincode rejects (variant index 9).
TruncatedRecord == <<5, 0, 1>>
UndecodableRecord ==
    to_le_bytes(28, 2) \o to_le_bytes(1, 8) \o to_le_bytes(1, 2) \o to_le_bytes(9, 4)
    \o <<0>> \o to_le_bytes(11, 8) \o to_le_bytes(3, 4) \o <<0>>

\* An event region followed by the trailer of a profile without events.
WithTrailer(region) == region \o ProfileFile(<<>>)

\* The event region a ProfileWriter leaves for a sequence of events.
EventRegion(events) == WriteAll(ProfileWriter_new, events).file

\* Files no ProfileWriter left: too short, without the magic, with a metadata
\* length above what precedes it, with a damaged last record.
DamagedFiles ==
    { <<>>, <<1, 2, 3>>, MagicBytes, <<0>> \o MagicBytes,
      <<0, 0, 1, 2, 3, 4>>,
      <<5, 0>> \o MagicBytes,
      WithTrailer(TruncatedRecord),
      WithTrailer(EventRegion(<<Get1>>) \o TruncatedRecord),
      WithTrailer(EventRegion(<<Get1>>) \o <<7>>),
      WithTrailer(UndecodableRecord) }

InitStreamer ==
    /\ Parked
    /\ capture = <<>>
    /\ parser = <<>>
    /\ generator = <<>>
    /\ bench = <<>>
    /\ client = <<>>
    /\ reassembler = <<>>
    /\ \E build \in Builds :
          \/ \E events \in StreamedProfiles :
                streamer = [file |-> ProfileFile(events), written |-> Some(events),
                            build |-> build, st |-> NoStreamer, results |-> <<>>,
                            previous |-> <<>>, resets |-> 0,
                            reader |-> NoReader, reader_opened |-> FALSE]
          \/ \E file \in DamagedFiles :
                streamer = [file |-> file, written |-> None,
                            build |-> build, st |-> NoStreamer, results |-> <<>>,
                            previous |-> <<>>, resets |-> 0,
                            reader |-> NoReader, reader_opened |-> FALSE]

streamer_unchanged ==
    UNCHANGED <<program_vars, reassembler, capture, parser, generator, bench, client>>

\* ProfileStreamer::new(path)
StreamerNew ==
    /\ streamer.st.kind = "none"
    /\ streamer' = [streamer EXCEPT !.st = ProfileStreamer_new(streamer.file, streamer.build)]
    /\ streamer_unchanged

\* ProfileReader::new(path) on the same file.
StreamerReaderNew ==
    /\ ~streamer.reader_opened
    /\ streamer' = [streamer EXCEPT !.reader = ProfileReader_new(streamer.file),
                                    !.reader_opened = TRUE]
    /\ streamer_unchanged

\* streamer.next_event(): `results` holds what the calls since the last reset
\* returned.
StreamerNextEvent ==
    /\ streamer.st.kind = "ok"
    /\ Len(streamer.results) < MaxCalls
    /\ LET out == next_event(streamer.st, streamer.file)
       IN  streamer' =
               [streamer EXCEPT
                   !.st = [@ EXCEPT !.current_offset = out.current_offset,
                                    !.kind = IF out.kind = "panic" THEN "panic" ELSE @],
                   !.results = Append(@, [kind |-> out.kind, event |-> out.event])]
    /\ streamer_unchanged

\* streamer.reset(): `previous` keeps what the calls before it returned.
StreamerReset ==
    /\ streamer.st.kind = "ok"
    /\ streamer.resets < MaxResets
    /\ streamer' = [streamer EXCEPT !.st = reset(@), !.previous = streamer.results,
                                    !.results = <<>>, !.resets = @ + 1]
    /\ streamer_unchanged

NextStreamer == StreamerNew \/ StreamerReaderNew \/ StreamerNextEvent \/ StreamerReset

SpecStreamer == InitStreamer /\ [][NextStreamer]_vars

(***************************************************************************)
(* SpecClient: one connection task and its ReplayClient over a TCP stream  *)
(* (replay/client.rs send_command and read_response, the Some(event)       *)
(* branch of replay/connection_task.rs), the server answering each request *)
(* and the network delivering its bytes in pieces.                         *)
(***************************************************************************)
\* Requests the task sends at most.
MaxRequests == 2

\* 'HD\r\n' and 'VA 2\r\nxx\r\n'
RespHD == <<72, 68, 13, 10>>
RespVA == <<86, 65, 32, 50, 13, 10, 120, 120, 13, 10>>
ServerResponses == {RespHD, RespVA}

\* stream.read(&mut self.buffer): the bytes the socket holds, at most the
\* 65536 of the buffer; Ok(0) at end of stream.
read(socket) == SubSeq(socket, 1, IF Len(socket) < 65536 THEN Len(socket) ELSE 65536)

\* client: pc is where the task stands ("recv": at rx.recv(), "read": in
\* read_response, "done": returned); in_flight are the bytes the server wrote
\* that have not arrived, socket those that arrived and were not read;
\* expected and reads are histories: the response the server gave to each
\* request, and what each call of read_response returned.
InitClient ==
    /\ Parked
    /\ capture = <<>>
    /\ parser = <<>>
    /\ generator = <<>>
    /\ bench = <<>>
    /\ reassembler = <<>>
    /\ streamer = <<>>
    /\ client = [pc |-> "recv", in_flight |-> <<>>, socket |-> <<>>, closed |-> FALSE,
                 stats |-> ConnectionStats_new, expected |-> <<>>, reads |-> <<>>]

client_unchanged ==
    UNCHANGED <<program_vars, streamer, reassembler, capture, parser, generator, bench>>

\* Some(event) from rx.recv(); client.send_command(&event) returns Ok: the
\* request is written and the server, if it is still there, writes its answer.
ClientSendCommand ==
    /\ client.pc = "recv"
    /\ Len(client.expected) < MaxRequests
    /\ \E response \in ServerResponses :
          client' = [client EXCEPT
                        !.pc = "read",
                        !.expected = Append(@, response),
                        !.in_flight = IF client.closed THEN @ ELSE @ \o response]
    /\ client_unchanged

\* client.send_command(&event) returns Err: ConnectionError, return Err(e).
ClientSendFail ==
    /\ client.pc = "recv"
    /\ Len(client.expected) < MaxRequests
    /\ client.closed
    /\ client' = [client EXCEPT !.pc = "done",
                                !.stats = record_error(@, "ConnectionError")]
    /\ client_unchanged

\* The network delivers the next k bytes the server wrote.
Deliver ==
    /\ client.in_flight # <<>>
    /\ \E k \in 1..Len(client.in_flight) :
          client' = [client EXCEPT
                        !.socket = @ \o SubSeq(client.in_flight, 1, k),
                        !.in_flight = SubSeq(@, k + 1, Len(@))]
    /\ client_unchanged

\* The target closes the connection, after what it wrote or dropping it.
ServerClose ==
    /\ ~client.closed
    /\ \E in_flight \in {client.in_flight, <<>>} :
          client' = [client EXCEPT !.closed = TRUE, !.in_flight = in_flight]
    /\ client_unchanged

\* client.read_response() returns Ok: one stream.read, which returns once
\* bytes have arrived or the stream has ended; then record_success.
ClientReadResponse ==
    /\ client.pc = "read"
    /\ client.socket # <<>> \/ (client.closed /\ client.in_flight = <<>>)
    /\ LET bytes == read(client.socket)
       IN  client' = [client EXCEPT
                        !.pc = "recv",
                        !.socket = SubSeq(@, Len(bytes) + 1, Len(@)),
                        !.stats = record_success(@, "Get"),
                        !.reads = Append(@, [bytes |-> bytes, outcome |-> "success"])]
    /\ client_unchanged

\* client.read_response() returns Err (the connection was reset):
\* ProtocolError, return Err(e).
ClientReadFail ==
    /\ client.pc = "read"
    /\ client.closed
    /\ client' = [client EXCEPT
                     !.pc = "done",
                     !.stats = record_error(@, "ProtocolError"),
                     !.reads = Append(@, [bytes |-> <<>>, outcome |-> "ProtocolError"])]
    /\ client_unchanged

NextClient ==
    \/ ClientSendCommand
    \/ ClientSendFail
    \/ Deliver
    \/ ServerClose
    \/ ClientReadResponse
    \/ ClientReadFail

SpecClient == InitClient /\ [][NextClient]_vars

(***************************************************************************)
(* replay/client.rs: ReplayClient::build_command_string.                   *)
(***************************************************************************)
\* format!("{}", n) of an unsigned integer: its decimal digits.
RECURSIVE format_decimal(_)
format_decimal(n) ==
    IF n < 10 THEN <<48 + n>> ELSE format_decimal(n \div 10) \o <<48 + (n % 10)>>

\* ReplayClient::generate_value: "x".repeat(size)
generate_value(size) == IF size = 0 THEN <<>> ELSE repeat(<<120>>, size)

\* ReplayClient::build_command_string
build_command_string(event) ==
    LET key == generate_key(event.key_hash, event.key_size)
    IN  CASE event.cmd_type = "Get" -> <<109, 103, SP>> \o key \o <<SP, 118, CR, LF>>
          [] event.cmd_type = "Set" ->
                LET size == IF event.value_size.some THEN event.value_size.v ELSE 0
                IN  <<109, 115, SP>> \o key \o <<SP>> \o format_decimal(size) \o <<CR, LF>>
                    \o generate_value(size) \o <<CR, LF>>
          [] event.cmd_type = "Delete" -> <<109, 100, SP>> \o key \o <<CR, LF>>
          [] event.cmd_type = "Noop" -> <<109, 110, CR, LF>>

(***************************************************************************)
(* SpecCommands: the client serializes events and the recorder's parser is *)
(* given the bytes.                                                        *)
(***************************************************************************)
\* Commands built in one run.
MaxBuilt == 2

\* The events serialized: the four command types, with and without a key,
\* and a Set as the recorder leaves it for a `set` line without a length.
SerializedEvents ==
    {Event(1, 1, cmd_type, 0, 171, key_size, None) :
         cmd_type \in {"Get", "Delete", "Noop"}, key_size \in {0, 3, 17}}
    \cup {Event(1, 1, "Set", 0, 171, key_size, value_size) :
              key_size \in {0, 3, 17}, value_size \in {Some(1), Some(12), None}}

InitCommands ==
    /\ Parked
    /\ capture = <<>>
    /\ parser = <<>>
    /\ generator = <<>>
    /\ bench = <<>>
    /\ reassembler = <<>>
    /\ streamer = <<>>
    /\ client = [built |-> <<>>]

\* send_command: let cmd = self.build_command_string(event); the recorder on
\* the path calls parse_command on the bytes.
BuildCommand ==
    /\ Len(client.built) < MaxBuilt
    /\ \E event \in SerializedEvents :
          LET cmd == build_command_string(event)
          IN  client' = [client EXCEPT !.built =
                            Append(@, [event |-> event, cmd |-> cmd,
                                       parsed |-> parse_command(cmd)])]
    /\ UNCHANGED <<program_vars, streamer, reassembler, capture, parser, generator, bench>>

NextCommands == BuildCommand

SpecCommands == InitCommands /\ [][NextCommands]_vars

(***************************************************************************)
(* record/parser.rs: MemcacheParser::parse_response.                       *)
(***************************************************************************)
\* What parse_response returns: Ok(ParsedResponse), Err(anyhow!(...)), or a
\* panic of the slice arithmetic or of the index parts[1].
ResponseErr(msg) ==
    [kind |-> "Err", msg |-> msg, resp |-> "Error", size |-> 0, consumed |-> 0]

ResponsePanic == [ResponseErr("index out of range") EXCEPT !.kind = "Panic"]

ResponseOk(resp, size, consumed) ==
    [kind |-> "Ok", msg |-> "", resp |-> resp, size |-> size, consumed |-> consumed]

\* MemcacheParser::parse_response
parse_response(input) ==
    LET line_end == Position(input, LF)
    IN  IF line_end < 0 THEN ResponseErr("no newline")
        ELSE IF line_end = 0 THEN ResponsePanic  \* line_end - 1 underflows
        ELSE
        LET line == SubSeq(input, 1, line_end - 1)
            parts == Split(line, SP)
            resp_type == parts[1]
        IN  CASE resp_type = <<86, 65>> ->
                    IF Len(parts) < 2 THEN ResponsePanic  \* parts[1]
                    ELSE IF ~ParseU32(parts[2]).ok THEN ResponseErr("invalid digit")
                    ELSE ResponseOk("Found", ParseU32(parts[2]).v, line_end + 1)
              [] resp_type = <<69, 78>> -> ResponseOk("NotFound", 0, line_end + 1)
              [] resp_type = <<69, 88>> -> ResponseOk("Error", 0, line_end + 1)
              [] resp_type = <<72, 68>> -> ResponseOk("Found", 0, line_end + 1)
              [] OTHER -> ResponseErr("unknown response")

(***************************************************************************)
(* SpecInputs: parse_command and parse_response on arbitrary input.        *)
(***************************************************************************)
\* Pieces an input is made of at most.
MaxPieces == 4

\* The pieces: a bare newline and the other separators, command and
\* response names, a key, a digit and a byte that is not ASCII.
Pieces ==
    { <<LF>>, <<CR, LF>>, <<SP>>, <<109, 103>>, <<109, 115>>, <<86, 65>>, <<72, 68>>,
      <<107>>, <<49>>, <<255>> }

RECURSIVE Inputs(_)
Inputs(n) ==
    IF n = 0 THEN {<<>>}
    ELSE Inputs(n - 1) \cup {input \o piece : input \in Inputs(n - 1), piece \in Pieces}

InitInputs ==
    /\ Parked
    /\ capture = <<>>
    /\ generator = <<>>
    /\ bench = <<>>
    /\ client = <<>>
    /\ reassembler = <<>>
    /\ streamer = <<>>
    /\ \E input \in Inputs(MaxPieces) :
          parser = [input |-> input, command |-> NoResult,
                    response |-> [ResponseErr("") EXCEPT !.kind = "none"]]

inputs_unchanged ==
    UNCHANGED <<program_vars, streamer, reassembler, capture, generator, bench, client>>

\* parser.parse_command(input)
ParseCommand ==
    /\ parser.command.kind = "none"
    /\ parser' = [parser EXCEPT !.command = parse_command(parser.input)]
    /\ inputs_unchanged

\* parser.parse_response(input)
ParseResponse ==
    /\ parser.response.kind = "none"
    /\ parser' = [parser EXCEPT !.response = parse_response(parser.input)]
    /\ inputs_unchanged

NextInputs == ParseCommand \/ ParseResponse

SpecInputs == InitInputs /\ [][NextInputs]_vars

(***************************************************************************)
(* Properties of the parser (SpecParser).                                  *)
(***************************************************************************)
\* The request line of the buffer, with its CRLF: the bytes up to the first LF.
LineLength(buffer) == Position(buffer, LF) + 1

\* C13: for a set/ms request declaring value length n, parse_command returns
\* Set only when the n value bytes and the trailing CRLF are in the buffer
\* behind the request line, and the remainder it returns starts after that
\* CRLF; without them it returns no command.
C13_SetWaitsForBody ==
    (/\ parser.calls > 0
     /\ parser.result.kind = "Ok"
     /\ parser.result.cmd_type = "Set"
     /\ parser.result.value_size.some) =>
        LET body_end == LineLength(parser.fed) + parser.result.value_size.v
        IN  /\ Len(parser.fed) >= body_end + 2
            /\ parser.fed[body_end + 1] = CR
            /\ parser.fed[body_end + 2] = LF
            /\ parser.result.rest = SubSeq(parser.fed, body_end + 3, Len(parser.fed))

\* C14: parse_command on a proper prefix of a valid request that holds no CRLF
\* yet reports Incomplete, not an error; once the rest has arrived it returns
\* the command of the whole request.
C14_PrefixIsIncomplete ==
    /\ (/\ parser.calls = 1
        /\ parser.cut < Len(parser.request)
        /\ Position(parser.fed, LF) < 0
        /\ parse_command(parser.request).kind = "Ok") =>
           parser.first.kind = "Incomplete"
    /\ (parser.calls = 2 /\ parser.first.kind = "Incomplete") =>
           parser.result.kind = "Ok"

(***************************************************************************)
(* Properties of the record loop and the generator (SpecRecord).           *)
(***************************************************************************)
ValueSizeIffSet(event) == event.value_size.some <=> event.cmd_type = "Set"

\* C11: every event the record loop builds from a parsed command, and every
\* event next_command returns, has a value_size exactly when its command is
\* Set.
C11_ValueSizeIffSet ==
    /\ \A i \in 1..Len(capture.events) : ValueSizeIffSet(capture.events[i])
    /\ \A i \in 1..Len(generator.events) : ValueSizeIffSet(generator.events[i])

\* The event a request of the flow stands for, whatever packets carry it.
RequestEvent(request) ==
    LET cmd == parse_command(request)
    IN  [cmd_type |-> cmd.cmd_type,
         key |-> SubSeq(request, cmd.key_start + 1, cmd.key_end)]

\* C15: once every packet of the flow has been read and every event written,
\* the recorded events are one per request of the byte stream, in stream
\* order, however the stream was cut into packets.
C15_PacketCutIrrelevant ==
    (capture.pending = <<>> /\ capture.pc # "failed") =>
        /\ capture.pc # "panicked"
        /\ Len(capture.events) = Len(capture.flow)
        /\ \A i \in 1..Len(capture.events) :
              /\ capture.events[i].cmd_type = RequestEvent(capture.flow[i]).cmd_type
              /\ capture.events[i].key = RequestEvent(capture.flow[i]).key

\* C16: a timeout does not end the loop and loses no event, while the end of
\* a capture file does: the loop leaves only on a signal or at the end of the
\* file, and once a poll has reported the end of the file it polls no more.
C16_EndOfSourceTerminates ==
    /\ (capture.pc = "finished" /\ ~capture.should_exit) =>
           (capture.finite /\ capture.end_polls > 0)
    /\ capture.end_polls <= 1

(***************************************************************************)
(* Properties of the statistics (SpecStats).                               *)
(***************************************************************************)
\* The count under key k in the `field` maps of every snapshot emitted and not
\* merged yet.
RECURSIVE UnmergedCount(_, _, _)
UnmergedCount(emitted, field, k) ==
    IF emitted = <<>> THEN 0
    ELSE CountOf(Head(emitted)[field], k) + UnmergedCount(Tail(emitted), field, k)

\* The count under key k still held by the connections' own stats.
LocalCount(field, k) ==
    CountOf(bench.stats[1][field], k) + CountOf(bench.stats[2][field], k)

\* C17: snapshots are deltas and merging adds. When every snapshot emitted has
\* been merged and no connection holds counts of its own, total_operations is
\* the number of record_success calls and every error count is the number of
\* record_error calls of its kind; at any time the merged, the emitted and the
\* local counts add up to the calls made; right after snapshot() the
\* connection's counters are zero.
C17_DeltaSnapshotsAdd ==
    /\ (/\ bench.emitted = <<>>
        /\ \A c \in StatsConns : bench.stats[c] = ConnectionStats_new) =>
           /\ total_operations(bench.aggregated) = bench.successes
           /\ \A e \in ErrorType : CountOf(bench.aggregated.error_counts, e) = bench.errors[e]
    /\ total_operations(bench.aggregated)
         + SumValues([k \in StatsCommands |->
                         UnmergedCount(bench.emitted, "success_counts", k)
                         + LocalCount("success_counts", k)])
         = bench.successes
    /\ \A e \in ErrorType :
          CountOf(bench.aggregated.error_counts, e)
            + UnmergedCount(bench.emitted, "error_counts", e)
            + LocalCount("error_counts", e)
          = bench.errors[e]
    /\ bench.snapshot_of \in StatsConns =>
          /\ SumValues(bench.stats[bench.snapshot_of].success_counts) = 0
          /\ SumValues(bench.stats[bench.snapshot_of].error_counts) = 0

\* Two successes of the same command and one error were recorded, spread over
\* two snapshots that have both been merged.
C17_Witness ==
    /\ bench.emitted = <<>>
    /\ \A c \in StatsConns : bench.stats[c] = ConnectionStats_new
    /\ bench.merged = 2
    /\ bench.snapshot_of = 0
    /\ bench.successes = 2
    /\ CountOf(bench.aggregated.success_counts, "Get") = 2
    /\ bench.errors["Timeout"] = 1
    /\ total_operations(bench.aggregated) = 2

(***************************************************************************)
(* Properties of key synthesis (SpecKeys).                                 *)
(***************************************************************************)
\* The 16 digits of the zero-padded hex rendering, worked out digit by digit:
\* digit i counts the sixteens of power 16 - i.
RECURSIVE Pow16(_)
Pow16(n) == IF n = 0 THEN 1 ELSE 16 * Pow16(n - 1)

RenderingDigit(key_hash, i) ==
    IF 16 - i >= 8 THEN 48  \* the hashes followed are below 16^8
    ELSE HexDigit((key_hash \div Pow16(16 - i)) % 16)

\* C19: key synthesis preserves size. The replay key of (key_hash, key_size)
\* is key_size characters long, its i-th character is the digit of the
\* 16-digit zero-padded hex rendering of key_hash at i modulo 16, and two
\* events of the same (key_hash, key_size) get the same key.
C19_KeyHasRecordedSize ==
    /\ \A n \in 1..Len(client.keys) :
          LET k == client.keys[n]
          IN  /\ Len(k.key) = k.key_size
              /\ \A i \in 1..k.key_size :
                    k.key[i] = RenderingDigit(k.key_hash, ((i - 1) % 16) + 1)
    /\ \A m, n \in 1..Len(client.keys) :
          (/\ client.keys[m].key_hash = client.keys[n].key_hash
           /\ client.keys[m].key_size = client.keys[n].key_size) =>
              client.keys[m].key = client.keys[n].key

\* A key of 33 characters, two renderings and one digit long, and the empty
\* key of size 0 were built from the hash 0xab.
C19_Witness ==
    /\ Len(client.keys) = 2
    /\ client.keys[1].key_hash = 171
    /\ client.keys[1].key_size = 33
    /\ client.keys[1].key[16] = 98
    /\ client.keys[1].key[33] = 48
    /\ client.keys[2].key_hash = 171
    /\ client.keys[2].key_size = 0
    /\ client.keys[2].key = <<>>

SamePair(a, b) == a.key_hash = b.key_hash /\ a.key_size = b.key_size

\* C20, as claimed: key synthesis is one-to-one. Events of different
\* (key_hash, key_size) get different keys and events of the same pair the
\* same key, for every key_size.
C20_OneToOne ==
    \A m, n \in 1..Len(client.keys) :
        SamePair(client.keys[m], client.keys[n]) <=> client.keys[m].key = client.keys[n].key

\* C20, amended: key synthesis is one-to-one from 16 characters on. Events of
\* the same pair get the same key; events of different sizes get different
\* keys; events of the same size of at least 16 and different hashes get
\* different keys; events of the same size below 16 get the same key exactly
\* when the renderings of their hashes agree on their first key_size digits.
C20_OneToOneFromSixteen ==
    \A m, n \in 1..Len(client.keys) :
        LET a == client.keys[m]
            b == client.keys[n]
        IN  /\ SamePair(a, b) => a.key = b.key
            /\ a.key_size # b.key_size => a.key # b.key
            /\ (a.key_size = b.key_size /\ a.key_size >= 16 /\ a.key_hash # b.key_hash) =>
                   a.key # b.key
            /\ (a.key_size = b.key_size /\ a.key_size < 16) =>
                   (a.key = b.key <=>
                        \A i \in 1..a.key_size :
                            RenderingDigit(a.key_hash, i) = RenderingDigit(b.key_hash, i))

\* The hashes 0x1 and 0x11 were both replayed with 16 characters, and their
\* keys differ.
C20_Witness ==
    /\ Len(client.keys) = 2
    /\ client.keys[1].key_hash = 1
    /\ client.keys[2].key_hash = 17
    /\ client.keys[1].key_size = 16
    /\ client.keys[2].key_size = 16
    /\ client.keys[1].key # client.keys[2].key

\* The hashes 0x1 and 0x2 were both replayed with 15 characters, as the same
\* key of fifteen zeros.
C20_WitnessShort ==
    /\ Len(client.keys) = 2
    /\ client.keys[1].key_hash = 1
    /\ client.keys[2].key_hash = 2
    /\ client.keys[1].key_size = 15
    /\ client.keys[2].key_size = 15
    /\ client.keys[1].key = client.keys[2].key

(***************************************************************************)
(* Properties of the reassembler (SpecReassembler).                        *)
(***************************************************************************)
\* The add_packet calls made for one flow, in arrival order.
ArrivalsOf(conn_id) == SelectSeq(reassembler.arrivals, LAMBDA a : a.conn_id = conn_id)

\* The place of the i-th arrival in the stream: behind every arrival of a
\* smaller sequence number and every earlier arrival of its own.
Rank(arrived, i) ==
    1 + Cardinality({j \in 1..Len(arrived) :
                        \/ arrived[j].seq < arrived[i].seq
                        \/ (arrived[j].seq = arrived[i].seq /\ j < i)})

\* The payloads of the arrivals, laid out by rank.
InSequenceOrder(arrived) ==
    [r \in 1..Len(arrived) |->
        arrived[CHOOSE i \in 1..Len(arrived) : Rank(arrived, i) = r].data]

RECURSIVE Flatten(_)
Flatten(payloads) ==
    IF payloads = <<>> THEN <<>> ELSE Head(payloads) \o Flatten(Tail(payloads))

\* C21: after any add_packet calls, get_stream(flow) is the flow's payloads
\* joined in ascending order of sequence number, whatever the order of
\* arrival; segments of one sequence number stay in arrival order; a flow
\* never seen has the empty stream.
C21_StreamInSequenceOrder ==
    /\ \A conn_id \in SendingFlows :
          get_stream(reassembler.streams, conn_id) = Flatten(InSequenceOrder(ArrivalsOf(conn_id)))
    /\ \A conn_id \in FlowKeys :
          ArrivalsOf(conn_id) = <<>> => get_stream(reassembler.streams, conn_id) = <<>>

\* Flow 1 got 'b' at 105, then 'a' at 100, then 'cd' at 105: its stream is
\* 'abcd'; flow 2, never seen, has the empty stream.
C21_Witness ==
    /\ Len(reassembler.arrivals) = 3
    /\ reassembler.arrivals[1] = [conn_id |-> 1, seq |-> 105, data |-> <<98>>]
    /\ reassembler.arrivals[2] = [conn_id |-> 1, seq |-> 100, data |-> <<97>>]
    /\ reassembler.arrivals[3] = [conn_id |-> 1, seq |-> 105, data |-> <<99, 100>>]
    /\ get_stream(reassembler.streams, 1) = <<97, 98, 99, 100>>
    /\ get_stream(reassembler.streams, 2) = <<>>

\* C22: the reassembler absorbs retransmissions. Adding a segment of the
\* flow, the sequence number and the payload of a segment already buffered
\* leaves the flow's stream as it was.
C22_DuplicatesAbsorbed ==
    reassembler.last.duplicate =>
        get_stream(reassembler.streams, reassembler.last.conn_id) = reassembler.last.before

(***************************************************************************)
(* Properties of the streamer (SpecStreamer).                              *)
(***************************************************************************)
\* What next_event returned: Ok(Some(event)) and Ok(None).
YieldedSome(event) == [kind |-> "some", event |-> event]
YieldedNone == [kind |-> "none", event |-> NoEventRead]

\* C31: on a profile a ProfileWriter left, the i-th call of next_event since
\* the streamer was opened or reset returns the i-th event written, every
\* call past the last event returns None, and the calls after a reset return
\* what the same calls returned before it.
C31_StreamerYieldsFileOrder ==
    streamer.written.some =>
        /\ \A i \in 1..Len(streamer.results) :
              streamer.results[i] =
                  IF i <= Len(streamer.written.v)
                  THEN YieldedSome(streamer.written.v[i]) ELSE YieldedNone
        /\ \A i \in 1..Len(streamer.results) :
              i <= Len(streamer.previous) => streamer.results[i] = streamer.previous[i]

\* Two events were streamed, then None twice; after the reset the same two
\* events and None came again.
C31_Witness ==
    /\ streamer.written = Some(<<Get1, Set1>>)
    /\ streamer.resets = 1
    /\ streamer.previous = <<YieldedSome(Get1), YieldedSome(Set1), YieldedNone, YieldedNone>>
    /\ streamer.results = <<YieldedSome(Get1), YieldedSome(Set1), YieldedNone>>

\* A file shorter than the 6-byte trailer, or without the magic in its last
\* four bytes, or whose metadata length exceeds the bytes before the length.
Malformed(file) ==
    IF Len(file) < 6 THEN TRUE
    ELSE \/ Slice(file, Len(file) - 4, Len(file)) # MagicBytes
         \/ from_le_bytes(Slice(file, Len(file) - 6, Len(file) - 4)) > Len(file) - 6

\* C32: on a malformed file ProfileStreamer::new and ProfileReader::new both
\* return an error: the streamer, once opened, is neither a panic nor an Ok
\* value, and the reader, once opened, is an Err.
C32_MalformedRejected ==
    Malformed(streamer.file) =>
        /\ streamer.st.kind \in {"none", "err"}
        /\ streamer.reader_opened => ~streamer.reader.ok

\* C38: the streamer agrees with the reader. On a file ProfileReader::new
\* accepts, ProfileStreamer::new returns a streamer, and its calls of
\* next_event return the events of ProfileReader.events() in order and then
\* None, never an error.
C38_StreamerAgreesWithReader ==
    (streamer.reader_opened /\ streamer.reader.ok /\ streamer.st.kind # "none") =>
        /\ streamer.st.kind = "ok"
        /\ \A i \in 1..Len(streamer.results) :
              streamer.results[i] =
                  IF i <= Len(streamer.reader.events)
                  THEN YieldedSome(streamer.reader.events[i]) ELSE YieldedNone

(***************************************************************************)
(* Further properties of the parser (SpecParser).                          *)
(***************************************************************************)
\* C33: the key-less requests are accepted. Once the whole of 'mn\r\n' or of
\* 'noop\r\n' has been fed, parse_command returns Ok with cmd_type Noop and
\* an empty key range.
C33_KeylessNoopAccepted ==
    (parser.calls = 2 /\ parser.request \in {ReqMn, ReqNoop}) =>
        /\ parser.result.kind = "Ok"
        /\ parser.result.cmd_type = "Noop"
        /\ parser.result.key_start = parser.result.key_end

(***************************************************************************)
(* Properties of the client on its TCP stream (SpecClient).                *)
(***************************************************************************)
\* C34: a read of zero bytes is a ProtocolError. Every call of read_response
\* whose read returned no byte was recorded as a ProtocolError, never as a
\* success, and after such a call the task has terminated.
C34_ZeroReadIsProtocolError ==
    /\ \A i \in 1..Len(client.reads) :
          client.reads[i].bytes = <<>> => client.reads[i].outcome = "ProtocolError"
    /\ (client.reads # <<>> /\ client.reads[Len(client.reads)].bytes = <<>>) =>
          client.pc = "done"

\* C35: requests and responses are paired. While the target keeps the
\* connection open, the i-th success the task records was given the whole of
\* the server's response to the i-th request and nothing else, however the
\* network cut the server's bytes.
C35_ResponsesPaired ==
    ~client.closed =>
        \A i \in 1..Len(client.reads) :
            client.reads[i].outcome = "success" =>
                client.reads[i].bytes = client.expected[i]

(***************************************************************************)
(* Further properties of the record loop (SpecRecord).                     *)
(***************************************************************************)
\* C36: the profile is finalized on every stop. Once run has left the capture
\* loop, on the shutdown flag or on a write_event that failed,
\* ProfileWriter.finish has been executed exactly once.
C36_FinishOnEveryStop ==
    capture.pc \in {"finished", "failed"} => capture.finish_calls = 1

(***************************************************************************)
(* Further properties of the dispatcher (Spec).                            *)
(***************************************************************************)
\* C37: the iteration counter advances only at the end of the profile. Short
\* of a cancellation, every step that changes dispatcher.iteration is the
\* step on which next_event returned None; a send that fails on a closed
\* queue is not such a step.
C37_IterationAdvancesAtEnd ==
    [][(dispatcher'.iteration # dispatcher.iteration /\ ~cancel_token) =>
          (dispatcher.pc = "inner" /\ dispatcher.current_offset >= Len(profile))]_vars

(***************************************************************************)
(* Properties of command serialization (SpecCommands).                     *)
(***************************************************************************)
\* C39: what the replay client sends can be recorded. For every event
\* serialized, parse_command on the bytes of build_command_string returns Ok
\* with the event's cmd_type, a key range as long as its key_size and, for a
\* Set, its value_size.
C39_ReplayIsRecordable ==
    \A i \in 1..Len(client.built) :
        LET event == client.built[i].event
            parsed == client.built[i].parsed
        IN  /\ parsed.kind = "Ok"
            /\ parsed.cmd_type = event.cmd_type
            /\ parsed.key_end - parsed.key_start = event.key_size
            /\ event.cmd_type = "Set" => parsed.value_size = event.value_size

(***************************************************************************)
(* Properties of the parser on arbitrary input (SpecInputs).               *)
(***************************************************************************)
\* C40: the parser is total. On every input parse_command and parse_response
\* return Ok or Err; neither panics.
C40_ParserTotal ==
    /\ parser.command.kind # "Panic"
    /\ parser.response.kind # "Panic"

====
